---- MODULE Spec2Model ----
(***************************************************************************)
(* Model of go-renby's rename engine (package renby, RenameFiles and its   *)
(* helpers) over an abstract filesystem.                                   *)
(*                                                                         *)
(* Strings are sequences of one-character strings, so that formatting,     *)
(* extension splitting and path cleaning are computed character by         *)
(* character as the Go code does.  The filesystem is a function from the   *)
(* paths that exist to the node found there.                               *)
(***************************************************************************)
EXTENDS Integers, Sequences, FiniteSets, TLC

(***************************************************************************)
(* Bounds of the model.                                                    *)
(***************************************************************************)
MaxFiles == 3        \* longest input list handed to RenameFiles
MaxInit == 1         \* largest Options.Init of a RenameFiles call
MaxCounter == 4      \* largest value of the temp-name counter of force mode
MaxStat == 32        \* cap on the count of os.Stat calls of a call
Pid == 7             \* value returned by os.Getpid()
MaxGenIndex == 2     \* largest ordinal given to generateNewName on its own
MaxGenInit == 16     \* largest Init given to generateNewName on its own
RenameTicks == 2     \* clock values the renames of one call may spread over
MaxPatterns == 2     \* file patterns on a command line

(***************************************************************************)
(* SortMode (the iota constants).                                          *)
(***************************************************************************)
SortByCreationTime == 0
SortByModificationTime == 1
SortByAccessTime == 2
SortBySize == 3

(***************************************************************************)
(* strings, path/filepath (unix)                                           *)
(***************************************************************************)
Sep == "/"

\* strings.Contains(s, c) for a one-character c
Contains(s, c) == \E i \in 1..Len(s) : s[i] = c

\* strings.HasSuffix
HasSuffix(s, suf) ==
    /\ Len(suf) <= Len(s)
    /\ SubSeq(s, Len(s) - Len(suf) + 1, Len(s)) = suf

\* strings.TrimSuffix
TrimSuffix(s, suf) ==
    IF HasSuffix(s, suf) THEN SubSeq(s, 1, Len(s) - Len(suf)) ELSE s

\* index of the last separator of s, 0 if none
RECURSIVE LastSep(_, _)
LastSep(s, i) ==
    IF i = 0 THEN 0
    ELSE IF s[i] = Sep THEN i
    ELSE LastSep(s, i - 1)

\* filepath.Ext: scan backwards to the last '.', stopping at a separator
RECURSIVE ExtFrom(_, _)
ExtFrom(path, i) ==
    IF i = 0 THEN << >>
    ELSE IF path[i] = Sep THEN << >>
    ELSE IF path[i] = "." THEN SubSeq(path, i, Len(path))
    ELSE ExtFrom(path, i - 1)

Ext(path) == ExtFrom(path, Len(path))

\* the elements of a path between separators (empty ones included)
RECURSIVE SplitFrom(_, _, _)
SplitFrom(s, i, acc) ==
    IF i > Len(s) THEN <<acc>>
    ELSE IF s[i] = Sep THEN <<acc>> \o SplitFrom(s, i + 1, << >>)
    ELSE SplitFrom(s, i + 1, Append(acc, s[i]))

Split(s) == SplitFrom(s, 1, << >>)

\* filepath.Clean's element loop: drop "" and ".", resolve ".."
RECURSIVE CleanElems(_, _, _, _)
CleanElems(elems, i, rooted, out) ==
    IF i > Len(elems) THEN out
    ELSE LET e == elems[i] IN
         IF e = << >> \/ e = <<".">> THEN CleanElems(elems, i + 1, rooted, out)
         ELSE IF e = <<".", ".">> THEN
              IF Len(out) > 0 /\ out[Len(out)] # <<".", ".">>
              THEN CleanElems(elems, i + 1, rooted, SubSeq(out, 1, Len(out) - 1))
              ELSE IF rooted THEN CleanElems(elems, i + 1, rooted, out)
              ELSE CleanElems(elems, i + 1, rooted, Append(out, e))
         ELSE CleanElems(elems, i + 1, rooted, Append(out, e))

RECURSIVE JoinElems(_, _)
JoinElems(elems, i) ==
    IF i > Len(elems) THEN << >>
    ELSE IF i = Len(elems) THEN elems[i]
    ELSE elems[i] \o <<Sep>> \o JoinElems(elems, i + 1)

\* filepath.Clean
Clean(path) ==
    IF path = << >> THEN <<".">>
    ELSE LET rooted == path[1] = Sep
             body == JoinElems(CleanElems(Split(path), 1, rooted, << >>), 1)
         IN  IF rooted THEN <<Sep>> \o body
             ELSE IF body = << >> THEN <<".">>
             ELSE body

\* filepath.Dir
Dir(path) == Clean(SubSeq(path, 1, LastSep(path, Len(path))))

\* filepath.Base
RECURSIVE StripTrailingSep(_)
StripTrailingSep(s) ==
    IF Len(s) > 0 /\ s[Len(s)] = Sep
    THEN StripTrailingSep(SubSeq(s, 1, Len(s) - 1))
    ELSE s

Base(path) ==
    IF path = << >> THEN <<".">>
    ELSE LET p == StripTrailingSep(path) IN
         IF p = << >> THEN <<Sep>>
         ELSE SubSeq(p, LastSep(p, Len(p)) + 1, Len(p))

\* filepath.Join of two elements: empty elements are ignored, the rest cleaned
Join(dir, name) ==
    IF dir = << >> /\ name = << >> THEN << >>
    ELSE IF dir = << >> THEN Clean(name)
    ELSE IF name = << >> THEN Clean(dir)
    ELSE Clean(dir \o <<Sep>> \o name)

(***************************************************************************)
(* fmt: the verbs %d and %x with the 0 flag and a * width                  *)
(***************************************************************************)
DigitChars ==
    <<"0", "1", "2", "3", "4", "5", "6", "7", "8", "9",
      "a", "b", "c", "d", "e", "f">>

\* the digits of n >= 0 in the given base, most significant first
RECURSIVE FormatUint(_, _)
FormatUint(n, base) ==
    IF n < base THEN <<DigitChars[n + 1]>>
    ELSE Append(FormatUint(n \div base, base), DigitChars[(n % base) + 1])

RECURSIVE Zeros(_)
Zeros(k) == IF k <= 0 THEN << >> ELSE <<"0">> \o Zeros(k - 1)

\* SprintfZeroPad cutting the number to the last width characters
SprintfZeroPadTruncate(width, n, base) ==
    LET ds == FormatUint(IF n >= 0 THEN n ELSE -n, base)
        full == Zeros(width - Len(ds)) \o ds
    IN  IF width > 0 THEN SubSeq(full, Len(full) - width + 1, Len(full))
        ELSE full

\* fmt.Sprintf("%0*d", width, n) (base 10) and fmt.Sprintf("%0*x", width, n)
\* (base 16): the sign first, then zeros up to the width, then the digits
SprintfZeroPad(width, n, base) ==
    IF n >= 0
    THEN LET ds == FormatUint(n, base) IN Zeros(width - Len(ds)) \o ds
    ELSE LET ds == FormatUint(-n, base) IN
         <<"-">> \o Zeros(width - 1 - Len(ds)) \o ds

\* fmt.Sprintf("%d", n)
SprintfD(n) == SprintfZeroPad(0, n, 10)

(***************************************************************************)
(* The filesystem.  A node records the path it had when the model started  *)
(* (orig: the identity of its content), whether it is a directory, and the *)
(* attributes os.Stat reports.  Paths are resolved relative to one working *)
(* directory, so a path names the node found under its cleaned form.       *)
(***************************************************************************)
ZeroTime == -1       \* the zero time.Time, before every file time

\* os.Stat(path) returns a nil error
StatOk(f, path) == Clean(path) \in DOMAIN f

\* NAME_MAX: the longest file name the filesystem takes, in bytes.  It is
\* 255 on the usual filesystems; the names here are short, and the limit is
\* scaled down with them.
NameMax == 32

\* os.IsNotExist(err) for the error of os.Stat(path): ENOENT.  A path whose
\* last element is longer than NAME_MAX fails with ENAMETOOLONG instead,
\* which os.IsNotExist does not recognise.
StatNotExist(f, path) == ~StatOk(f, path) /\ Len(Base(path)) <= NameMax

\* the os.FileInfo of a successful os.Stat(path)
Stat(f, path) == f[Clean(path)]

\* os.Rename(src, dst) returns a nil error: src exists, and dst is not a
\* directory that a file would replace
RenameOk(f, src, dst) ==
    /\ StatOk(f, src)
    /\ StatOk(f, dst) /\ Clean(dst) # Clean(src) =>
          Stat(f, dst).isDir = Stat(f, src).isDir

\* the filesystem after a successful os.Rename(src, dst): the node moves, and
\* replaces whatever was at dst
RenameFs(f, src, dst) ==
    LET s == Clean(src)
        d == Clean(dst)
    IN  [p \in (DOMAIN f \ {s}) \cup {d} |-> IF p = d THEN f[s] ELSE f[p]]

\* the filesystem after a successful os.Remove(path)
RemoveFs(f, path) == [p \in DOMAIN f \ {Clean(path)} |-> f[p]]

(***************************************************************************)
(* FileInfo, Options                                                       *)
(***************************************************************************)
\* FileInfo{}: the zero value
EmptyFileInfo ==
    [Path |-> << >>, Size |-> 0, CreateTime |-> ZeroTime,
     ModTime |-> ZeroTime, AccessTime |-> ZeroTime]

\* Options.Validate: the error message, << >> standing for nil
ErrNil == ""
ErrEmptyPattern == "pattern cannot be empty"
ErrNegativeInit == "init value must be non-negative"
ErrStat == "failed to get file info"

\* Validate without the check of Init
ValidatePatternOnly(o) ==
    IF o.Pattern = << >> THEN ErrEmptyPattern ELSE ErrNil

Validate(o) ==
    IF o.Pattern = << >> THEN ErrEmptyPattern
    ELSE IF o.Init < 0 THEN ErrNegativeInit
    ELSE ErrNil

\* ostime.GetOsTime (linux): the three times of a stat result
GetOsTime(info) ==
    [CreationTime |-> info.ctime, ModificationTime |-> info.mtime,
     AccessTime |-> info.atime]

\* getFileInfo treating a failed os.Stat like a directory
getFileInfoSkipMissing(f, path) ==
    IF ~StatOk(f, path) THEN [err |-> ErrNil, fi |-> EmptyFileInfo]
    ELSE LET info == Stat(f, path) IN
         IF info.isDir THEN [err |-> ErrNil, fi |-> EmptyFileInfo]
         ELSE [err |-> ErrNil,
               fi |-> [Path |-> path, Size |-> info.size,
                       CreateTime |-> info.ctime, ModTime |-> info.mtime,
                       AccessTime |-> info.atime]]

\* getFileInfo without the IsDir branch
getFileInfoKeepDirs(f, path) ==
    IF ~StatOk(f, path) THEN [err |-> ErrStat, fi |-> EmptyFileInfo]
    ELSE LET info == Stat(f, path) IN
         [err |-> ErrNil,
          fi |-> [Path |-> path, Size |-> info.size,
                  CreateTime |-> info.ctime, ModTime |-> info.mtime,
                  AccessTime |-> info.atime]]

\* getFileInfo: [err, fi]; a directory yields the zero FileInfo and no error
getFileInfo(f, path) ==
    IF ~StatOk(f, path) THEN [err |-> ErrStat, fi |-> EmptyFileInfo]
    ELSE LET info == Stat(f, path) IN
         IF info.isDir THEN [err |-> ErrNil, fi |-> EmptyFileInfo]
         ELSE LET ostime == GetOsTime(info) IN
              [err |-> ErrNil,
               fi |-> [Path |-> path, Size |-> info.size,
                       CreateTime |-> ostime.CreationTime,
                       ModTime |-> ostime.ModificationTime,
                       AccessTime |-> ostime.AccessTime]]

\* collectFileInfo's loop telling the zero FileInfo by its Size alone
RECURSIVE collectFromBySize(_, _, _, _)
collectFromBySize(f, paths, i, acc) ==
    IF i > Len(paths) THEN [err |-> ErrNil, fileInfos |-> acc]
    ELSE LET r == getFileInfo(f, paths[i]) IN
         IF r.err # ErrNil THEN [err |-> r.err, fileInfos |-> << >>]
         ELSE IF r.fi.Size # EmptyFileInfo.Size
              THEN collectFromBySize(f, paths, i + 1, Append(acc, r.fi))
              ELSE collectFromBySize(f, paths, i + 1, acc)

\* collectFileInfo's loop from position i on, acc being fileInfos so far
RECURSIVE collectFrom(_, _, _, _)
collectFrom(f, paths, i, acc) ==
    IF i > Len(paths) THEN [err |-> ErrNil, fileInfos |-> acc]
    ELSE LET r == getFileInfo(f, paths[i]) IN
         IF r.err # ErrNil THEN [err |-> r.err, fileInfos |-> << >>]
         ELSE IF r.fi # EmptyFileInfo
              THEN collectFrom(f, paths, i + 1, Append(acc, r.fi))
              ELSE collectFrom(f, paths, i + 1, acc)

\* collectFileInfo failing on an empty list
collectFileInfoRejectEmpty(f, paths) ==
    IF Len(paths) = 0 THEN [err |-> ErrStat, fileInfos |-> << >>]
    ELSE collectFrom(f, paths, 1, << >>)

\* collectFileInfo
collectFileInfo(f, paths) ==
    IF Len(paths) = 0 THEN [err |-> ErrNil, fileInfos |-> << >>]
    ELSE collectFrom(f, paths, 1, << >>)

(***************************************************************************)
(* Ordering                                                                *)
(***************************************************************************)
\* the place of a character in byte order, among the characters the
\* model's strings are made of
CharRank(c) ==
    LET ByteOrder ==
          <<"*", "-", ".", "/", "0", "1", "2", "3", "4", "5", "6", "7", "8",
            "9", "=", "?", "[", "]", "a", "b", "c", "d", "e", "f", "g", "h",
            "i", "j", "k", "l", "m", "n", "o", "p", "q", "r", "s", "t", "u",
            "v", "w", "x", "y", "z">>
    IN  CHOOSE i \in 1..Len(ByteOrder) : ByteOrder[i] = c

\* a < b on strings
RECURSIVE StringLess(_, _, _)
StringLess(a, b, i) ==
    IF i > Len(a) THEN i <= Len(b)
    ELSE IF i > Len(b) THEN FALSE
    ELSE IF CharRank(a[i]) # CharRank(b[i]) THEN CharRank(a[i]) < CharRank(b[i])
    ELSE StringLess(a, b, i + 1)

\* compareFiles with the operands of every comparison exchanged
compareFilesSwapped(a, b, mode) ==
    CASE mode = SortByCreationTime -> b.CreateTime < a.CreateTime
      [] mode = SortByModificationTime -> b.ModTime < a.ModTime
      [] mode = SortByAccessTime -> b.AccessTime < a.AccessTime
      [] mode = SortBySize -> b.Size < a.Size
      [] OTHER -> StringLess(b.Path, a.Path, 1)

\* compareFiles
compareFiles(a, b, mode) ==
    CASE mode = SortByCreationTime -> a.CreateTime < b.CreateTime
      [] mode = SortByModificationTime -> a.ModTime < b.ModTime
      [] mode = SortByAccessTime -> a.AccessTime < b.AccessTime
      [] mode = SortBySize -> a.Size < b.Size
      [] OTHER -> StringLess(a.Path, b.Path, 1)

\* the less function without the negation for reverse
sortLessNoReverse(a, b, mode, reverse) ==
    compareFiles(a, b, mode)

\* the less function sortFiles hands to sort.Slice
sortLess(a, b, mode, reverse) ==
    IF reverse THEN ~compareFiles(a, b, mode) ELSE compareFiles(a, b, mode)

\* data[i], data[j] = data[j], data[i]
Swap(s, i, j) == [s EXCEPT ![i] = s[j], ![j] = s[i]]

\* The inner loop of the insertion sort sort.Slice runs on a slice of at most
\* 12 elements: for j := i; j > a && less(data[j], data[j-1]); j-- { swap }
RECURSIVE InsertBack(_, _, _, _)
InsertBack(s, j, mode, reverse) ==
    IF j > 1 /\ sortLess(s[j], s[j - 1], mode, reverse)
    THEN InsertBack(Swap(s, j, j - 1), j - 1, mode, reverse)
    ELSE s

\* The outer loop: for i := a + 1; i < b; i++ (indices from 1 here).
RECURSIVE InsertionSort(_, _, _, _)
InsertionSort(s, i, mode, reverse) ==
    IF i > Len(s) THEN s
    ELSE InsertionSort(InsertBack(s, i, mode, reverse), i + 1, mode, reverse)

\* sortFiles: the orders sort.Slice may leave the slice in.  sort.Slice does
\* not promise stability; on the batches of this model (at most 12 records)
\* every Go release sorts by the insertion sort above, so the outcome is the
\* single order that loop produces with the less function sortFiles passes.
sortFiles(fis, mode, reverse) ==
    {InsertionSort(fis, 2, mode, reverse)}

(***************************************************************************)
(* Name generation                                                         *)
(***************************************************************************)
\* generateNewName numbering from 1 whatever Init is
generateNewNameFromOne(fi, index, o) ==
    LET ext == Ext(fi.Path)
        basePath == SubSeq(fi.Path, 1, Len(fi.Path) - Len(ext))
        dir == Dir(basePath)
        base == IF Contains(o.Pattern, "x") THEN 16 ELSE 10
        newName == o.Pre \o SprintfZeroPad(Len(o.Pattern), index + 1, base)
                         \o o.Post \o ext
    IN  Join(dir, newName)

\* generateNewName returning newName without joining it to dir
generateNewNameNoDir(fi, index, o) ==
    LET ext == Ext(fi.Path)
        base == IF Contains(o.Pattern, "x") THEN 16 ELSE 10
    IN  o.Pre \o SprintfZeroPad(Len(o.Pattern), index + o.Init, base)
              \o o.Post \o ext

\* the suffix after the extension instead of before it
generateNewNameSuffixLast(fi, index, o) ==
    LET ext == Ext(fi.Path)
        basePath == SubSeq(fi.Path, 1, Len(fi.Path) - Len(ext))
        dir == Dir(basePath)
        base == IF Contains(o.Pattern, "x") THEN 16 ELSE 10
        newName == o.Pre \o SprintfZeroPad(Len(o.Pattern), index + o.Init, base)
                         \o ext \o o.Post
    IN  Join(dir, newName)

\* generateNewName numbering every file with Init
generateNewNameNoIndex(fi, index, o) ==
    LET ext == Ext(fi.Path)
        basePath == SubSeq(fi.Path, 1, Len(fi.Path) - Len(ext))
        dir == Dir(basePath)
        base == IF Contains(o.Pattern, "x") THEN 16 ELSE 10
        newName == o.Pre \o SprintfZeroPad(Len(o.Pattern), o.Init, base)
                         \o o.Post \o ext
    IN  Join(dir, newName)

\* generateNewName (index is zero-based)
generateNewName(fi, index, o) ==
    LET ext == Ext(fi.Path)
        basePath == SubSeq(fi.Path, 1, Len(fi.Path) - Len(ext))
        dir == Dir(basePath)
        base == IF Contains(o.Pattern, "x") THEN 16 ELSE 10
        newName == o.Pre \o SprintfZeroPad(Len(o.Pattern), index + o.Init, base)
                         \o o.Post \o ext
    IN  Join(dir, newName)

\* fmt.Sprintf("%s.renby.tmp.%d.%d%s", base, pid, counter, ext) joined to the
\* directory of dst: the temp name force mode tries for dst
TempName(dst, pid, counter) ==
    LET dir == Dir(dst)
        ext == Ext(dst)
        base == TrimSuffix(Base(dst), ext)
    IN  Join(dir, base \o <<".", "r", "e", "n", "b", "y", ".", "t", "m", "p", ".">>
                       \o SprintfD(pid) \o <<".">> \o SprintfD(counter) \o ext)

(***************************************************************************)
(* Planning                                                                *)
(***************************************************************************)
\* the planning loop of RenameFiles: plan[fi.Path] = dst, later entries of the
\* sorted slice overwriting earlier ones with the same path
BuildPlan(sorted, o) ==
    LET last(p) == CHOOSE i \in 1..Len(sorted) :
                      /\ sorted[i].Path = p
                      /\ \A j \in 1..Len(sorted) : sorted[j].Path = p => j <= i
    IN  [p \in {sorted[i].Path : i \in 1..Len(sorted)} |->
            generateNewName(sorted[last(p)], last(p) - 1, o)]

\* dstToSrc: for every generated destination, the sources appended to it
BuildDstToSrc(sorted, o) ==
    LET dstOf(i) == generateNewName(sorted[i], i - 1, o)
        RECURSIVE srcsOf(_, _)
        srcsOf(d, i) ==
            IF i > Len(sorted) THEN << >>
            ELSE IF dstOf(i) = d THEN <<sorted[i].Path>> \o srcsOf(d, i + 1)
            ELSE srcsOf(d, i + 1)
    IN  [d \in {dstOf(i) : i \in 1..Len(sorted)} |-> srcsOf(d, 1)]

\* srcSet
BuildSrcSet(sorted) == {sorted[i].Path : i \in 1..Len(sorted)}

\* DetectConflicts without the os.Stat of the destination
DetectConflictsNoStat(f, dstToSrc, sources) ==
    {[kind |-> "multiple sources", dst |-> d] :
        d \in {x \in DOMAIN dstToSrc : Len(dstToSrc[x]) > 1}}

\* DetectConflicts probing every destination, sources of the batch included
DetectConflictsStatAll(f, dstToSrc, sources) ==
    {[kind |-> "multiple sources", dst |-> d] :
        d \in {x \in DOMAIN dstToSrc : Len(dstToSrc[x]) > 1}}
    \cup
    {[kind |-> "destination already exists", dst |-> d] :
        d \in {x \in DOMAIN dstToSrc : StatOk(f, x)}}

\* the conflicts the detection loop appends, as [kind, dst]
DetectConflicts(f, dstToSrc, sources) ==
    {[kind |-> "multiple sources", dst |-> d] :
        d \in {x \in DOMAIN dstToSrc : Len(dstToSrc[x]) > 1}}
    \cup
    {[kind |-> "destination already exists", dst |-> d] :
        d \in {x \in DOMAIN dstToSrc : x \notin sources /\ StatOk(f, x)}}

\* the errors RenameFiles returns
ErrInvalidOptions(e) ==
    IF e = ErrEmptyPattern THEN "invalid options: pattern cannot be empty"
    ELSE "invalid options: init value must be non-negative"
ErrConflictsAbort == "conflicts detected, aborting"
ErrConflictSource == "conflicts detected: destination is also a source"
ErrDestExists == "destination already exists before renaming"
ErrRename == "failed to rename file"
ErrMoveToTemp == "failed to move source to temp"
ErrMissingTemp == "missing temp for source"
ErrTempToDst == "failed to rename temp to dst"

\* DirectExistsError without the srcSet lookup
DirectExistsErrorPlain(dst, sources) == ErrDestExists

\* the error direct mode returns when the destination of an entry exists
DirectExistsError(dst, sources) ==
    IF dst \in sources THEN ErrConflictSource ELSE ErrDestExists

\* the guard of the pre-commit abort without the ForceOverwrite test
AbortOnConflictsAlways(conflicts, o) == conflicts # {}

\* the guard of the pre-commit abort
AbortOnConflicts(conflicts, o) == conflicts # {} /\ ~o.ForceOverwrite

\* StageTarget renaming the source straight to its destination
StageTargetDirect(temp, dst) == dst

\* the target of the first-pass rename of force mode
StageTarget(temp, dst) == temp

(***************************************************************************)
(* State                                                                   *)
(***************************************************************************)
VARIABLES
    fs,         \* the filesystem: path -> node
    fs0,        \* the filesystem when RenameFiles was called
    pc,         \* position of the call: "idle", a loop position, "done"
    files,      \* argument files
    opts,       \* argument opts
    fileInfos,  \* the collected slice, after sortFiles
    plan,       \* plan: src -> dst
    srcSet,     \* srcSet
    todo,       \* keys of plan the running range loop has yet to visit
    cur,        \* src of the entry the running loop is at
    temp,       \* temp of the entry the staging loop is at
    temps,      \* temps: src -> temp
    counter,    \* counter
    err,        \* the returned error once pc = "done" (ErrNil: nil)
    nstat,      \* os.Stat calls made by the call
    nmut,       \* successful os.Rename and os.Remove calls made by the call
    gen,        \* generateNewName applied on its own: inputs and result
    srt,        \* sortFiles applied on its own: input and both orders
    calls,      \* RenameFiles calls started so far
    args        \* os.Args of the command, after the program name

vars == <<fs, fs0, pc, files, opts, fileInfos, plan, srcSet, todo, cur, temp,
          temps, counter, err, nstat, nmut, gen, srt, calls, args>>

callVars == <<fs, fs0, pc, files, opts, fileInfos, plan, srcSet, todo, cur,
              temp, temps, counter, err, nstat, nmut, calls, args>>

(***************************************************************************)
(* Initial filesystems and inputs                                          *)
(***************************************************************************)
P1 == <<"1", ".", "t">>
P2 == <<"2", ".", "t">>
P3 == <<"3", ".", "t">>

\* the paths a caller may list
Universe == {P1, P2, P3}

\* the attribute sets a regular file may start with: the orders by size,
\* ctime, mtime and atime differ, and atime ties "A" with "B"
NodeOf(path, kind) ==
    CASE kind = "A" -> [orig |-> path, isDir |-> FALSE, size |-> 1,
                        ctime |-> 0, mtime |-> 2, atime |-> 0]
      [] kind = "B" -> [orig |-> path, isDir |-> FALSE, size |-> 0,
                        ctime |-> 1, mtime |-> 1, atime |-> 0]
      [] kind = "C" -> [orig |-> path, isDir |-> FALSE, size |-> 2,
                        ctime |-> 2, mtime |-> 0, atime |-> 1]
      [] OTHER -> [orig |-> path, isDir |-> TRUE, size |-> 0,
                   ctime |-> 0, mtime |-> 0, atime |-> 0]

\* the paths that may exist initially,
\* with the temp name force mode tries first for the destination 1.t: a
\* file an interrupted earlier run may have left behind
InitialPaths == Universe \cup {TempName(P1, Pid, 0)}

\* what an initial path may hold: P1 and P3 a regular file or a directory,
\* the others a regular file
KindsAt(p) == IF p \in {P1, P3} THEN {"file", "dir"} ELSE {"file"}

\* the initial filesystems; the regular files of the batch differ in every
\* attribute, or those at P1 and P2 are equal in every attribute
InitialFs ==
    {[p \in DOMAIN k |-> NodeOf(p, IF k[p] = "dir" THEN "dir" ELSE prof[p])] :
        k \in {x \in UNION {[S -> {"file", "dir"}] : S \in SUBSET InitialPaths} :
                 \A p \in DOMAIN x : x[p] \in KindsAt(p)},
        prof \in {[p \in InitialPaths |->
                      IF p = P2 THEN "B" ELSE IF p = P3 THEN "C" ELSE "A"],
                  [p \in InitialPaths |-> IF p = P3 THEN "C" ELSE "A"]}}

\* input lists: distinct paths (the caller has removed duplicates)
RECURSIVE ListsUpTo(_)
ListsUpTo(n) ==
    IF n = 0 THEN {<< >>}
    ELSE LET shorter == ListsUpTo(n - 1) IN
         shorter \cup
         {Append(l, p) : l \in {x \in shorter : Len(x) = n - 1},
                         p \in Universe}

InputLists ==
    {l \in ListsUpTo(MaxFiles) : \A i, j \in 1..Len(l) : l[i] = l[j] => i = j}

\* the options of a call: every valid combination, and the invalid ones
\* (empty pattern, negative Init) in both modes
InputOptions ==
    {o \in [Pre : {<< >>}, Post : {<< >>}, Pattern : {<< >>, <<"0">>},
            Reverse : BOOLEAN,
            FileMode : {SortByCreationTime, SortByModificationTime,
                        SortByAccessTime, SortBySize},
            Init : (-1)..MaxInit, ForceOverwrite : BOOLEAN] :
        Validate(o) # ErrNil => ~o.Reverse /\ o.FileMode = SortBySize}

NoOptions ==
    [Pre |-> << >>, Post |-> << >>, Pattern |-> << >>, Reverse |-> FALSE,
     FileMode |-> SortByCreationTime, Init |-> 0, ForceOverwrite |-> FALSE]

NoGen == [pending |-> FALSE, path |-> << >>, index |-> 0, opts |-> NoOptions,
          out |-> << >>]

NoSort == [pending |-> FALSE, input |-> << >>, mode |-> SortBySize,
           asc |-> << >>, desc |-> << >>]

Init ==
    /\ fs \in InitialFs
    /\ fs0 = fs
    /\ pc = "idle"
    /\ files = << >>
    /\ opts = NoOptions
    /\ fileInfos = << >>
    /\ plan = << >>
    /\ srcSet = {}
    /\ todo = {}
    /\ cur = << >>
    /\ temp = << >>
    /\ temps = << >>
    /\ counter = 0
    /\ err = ErrNil
    /\ nstat = 0
    /\ nmut = 0
    /\ gen = NoGen
    /\ srt = NoSort
    /\ calls = 0
    /\ args = << >>

(***************************************************************************)
(* RenameFiles                                                             *)
(***************************************************************************)
\* the call returns e
Return(e) ==
    /\ pc' = "done"
    /\ err' = e

\* number of os.Stat calls collectFileInfo makes: up to the first failure
StatsOfCollect(f, paths) ==
    IF \E i \in 1..Len(paths) : ~StatOk(f, paths[i])
    THEN CHOOSE i \in 1..Len(paths) :
            /\ ~StatOk(f, paths[i])
            /\ \A j \in 1..(i - 1) : StatOk(f, paths[j])
    ELSE Len(paths)

\* RenameFiles up to the commit loops: validation, collection, ordering,
\* planning and conflict detection.  None of them changes the filesystem.
Call(fl, o) ==
    /\ pc = "idle"
    /\ files' = fl
    /\ opts' = o
    /\ fs0' = fs
    /\ calls' = calls + 1
    /\ cur' = << >>
    /\ temp' = << >>
    /\ temps' = << >>
    /\ counter' = 0
    /\ nmut' = 0
    /\ UNCHANGED <<fs, gen, srt, args>>
    /\ IF Validate(o) # ErrNil
       THEN /\ Return(ErrInvalidOptions(Validate(o)))
            /\ UNCHANGED <<fileInfos, plan, srcSet, todo, nstat>>
       ELSE LET c == collectFileInfo(fs, fl) IN
            IF c.err # ErrNil
            THEN /\ Return(c.err)
                 /\ nstat' = StatsOfCollect(fs, fl)
                 /\ UNCHANGED <<fileInfos, plan, srcSet, todo>>
            ELSE IF Len(c.fileInfos) = 0
            THEN /\ Return(ErrNil)
                 /\ nstat' = StatsOfCollect(fs, fl)
                 /\ UNCHANGED <<fileInfos, plan, srcSet, todo>>
            ELSE \E sorted \in sortFiles(c.fileInfos, o.FileMode, o.Reverse) :
                 LET pl == BuildPlan(sorted, o)
                     dstToSrc == BuildDstToSrc(sorted, o)
                     sources == BuildSrcSet(sorted)
                     conflicts == DetectConflicts(fs, dstToSrc, sources)
                 IN  /\ fileInfos' = sorted
                     /\ plan' = pl
                     /\ srcSet' = sources
                     /\ nstat' = StatsOfCollect(fs, fl)
                                 + Cardinality(DOMAIN dstToSrc \ sources)
                     /\ IF AbortOnConflicts(conflicts, o)
                        THEN /\ Return(ErrConflictsAbort)
                             /\ todo' = {}
                        ELSE /\ pc' = IF o.ForceOverwrite THEN "stage" ELSE "direct"
                             /\ err' = ErrNil
                             /\ todo' = DOMAIN pl

\* the direct loop moves on from entry src: to the next entry, or returns nil
DirectAdvance(src) ==
    /\ todo' = todo \ {src}
    /\ cur' = << >>
    /\ IF todo \ {src} = {} THEN Return(ErrNil)
       ELSE /\ pc' = "direct"
            /\ err' = err

\* DirectCheck without the os.Stat of the destination
DirectCheckNoStat ==
    /\ pc = "direct"
    /\ \E src \in todo :
          IF src = plan[src]
          THEN /\ DirectAdvance(src)
               /\ UNCHANGED <<nstat>>
          ELSE /\ nstat' = nstat
               /\ pc' = "direct_rename"
               /\ cur' = src
               /\ UNCHANGED <<todo, err>>
    /\ UNCHANGED <<fs, fs0, files, opts, fileInfos, plan, srcSet, temp, temps,
                   counter, nmut, gen, srt, calls, args>>

\* direct mode, one entry of the range over plan (in any order): skip
\* src == dst, fail if dst exists
DirectCheck ==
    /\ pc = "direct"
    /\ \E src \in todo :
          LET dst == plan[src] IN
          IF src = dst
          THEN /\ DirectAdvance(src)
               /\ UNCHANGED <<nstat>>
          ELSE /\ nstat' = nstat + 1
               /\ IF StatOk(fs, dst)
                  THEN /\ Return(DirectExistsError(dst, srcSet))
                       /\ UNCHANGED <<todo, cur>>
                  ELSE /\ pc' = "direct_rename"
                       /\ cur' = src
                       /\ UNCHANGED <<todo, err>>
    /\ UNCHANGED <<fs, fs0, files, opts, fileInfos, plan, srcSet, temp, temps,
                   counter, nmut, gen, srt, calls,
                   args>>

\* direct mode: os.Rename(src, dst) of the entry just checked
DirectRename ==
    /\ pc = "direct_rename"
    /\ LET src == cur
           dst == plan[cur]
       IN  IF RenameOk(fs, src, dst)
           THEN /\ fs' = RenameFs(fs, src, dst)
                /\ nmut' = nmut + 1
                /\ DirectAdvance(src)
           ELSE /\ Return(ErrRename)
                /\ UNCHANGED <<fs, nmut, todo, cur>>
    /\ UNCHANGED <<fs0, files, opts, fileInfos, plan, srcSet, temp, temps,
                   counter, nstat, gen, srt, calls,
                   args>>

\* StageAdvance leaving the staging loop after its first entry
StageAdvanceEarly(src) ==
    /\ cur' = << >>
    /\ temp' = << >>
    /\ pc' = "final"
    /\ todo' = DOMAIN plan

\* the staging loop moves on from entry src: to the next entry, or to the
\* second loop over plan
StageAdvance(src) ==
    /\ cur' = << >>
    /\ temp' = << >>
    /\ IF todo \ {src} = {}
       THEN /\ pc' = "final"
            /\ todo' = DOMAIN plan
       ELSE /\ pc' = "stage"
            /\ todo' = todo \ {src}

\* force mode, first loop, one entry of the range over plan: skip src == dst
StagePick ==
    /\ pc = "stage"
    /\ \E src \in todo :
          IF src = plan[src]
          THEN StageAdvance(src)
          ELSE /\ pc' = "stage_temp"
               /\ cur' = src
               /\ UNCHANGED <<todo, temp>>
    /\ UNCHANGED <<fs, fs0, files, opts, fileInfos, plan, srcSet, temps,
                   counter, err, nstat, nmut, gen, srt, calls,
                   args>>

\* TempTry taking the first candidate whether it exists or not
TempTryNoStat ==
    /\ pc = "stage_temp"
    /\ counter < MaxCounter
    /\ temp' = TempName(plan[cur], Pid, counter)
    /\ counter' = counter + 1
    /\ nstat' = nstat + 1
    /\ pc' = "stage_rename"
    /\ UNCHANGED <<fs, fs0, files, opts, fileInfos, plan, srcSet, todo, cur,
                   temps, err, nmut, gen, srt, calls, args>>

\* force mode, one turn of the temp-name loop: build the candidate, count,
\* leave the loop if os.Stat reports that it does not exist.  counter is an
\* int: incremented at its largest value it wraps around, here after
\* MaxCounter as there after 2^63 - 1.
TempTry ==
    /\ pc = "stage_temp"
    /\ LET candidate == TempName(plan[cur], Pid, counter) IN
       /\ temp' = candidate
       /\ counter' = (counter + 1) % (MaxCounter + 1)
       /\ nstat' = IF nstat < MaxStat THEN nstat + 1 ELSE nstat
       /\ pc' = IF StatNotExist(fs, candidate) THEN "stage_rename" ELSE "stage_temp"
    /\ UNCHANGED <<fs, fs0, files, opts, fileInfos, plan, srcSet, todo, cur,
                   temps, err, nmut, gen, srt, calls,
                   args>>

\* force mode: os.Rename(src, temp), then temps[src] = temp
StageRename ==
    /\ pc = "stage_rename"
    /\ LET src == cur
           target == StageTarget(temp, plan[cur])
       IN  IF RenameOk(fs, src, target)
           THEN /\ fs' = RenameFs(fs, src, target)
                /\ nmut' = nmut + 1
                /\ temps' = [s \in DOMAIN temps \cup {src} |->
                                IF s = src THEN temp ELSE temps[s]]
                /\ StageAdvance(src)
                /\ UNCHANGED err
           ELSE /\ Return(ErrMoveToTemp)
                /\ UNCHANGED <<fs, nmut, temps, todo, cur, temp>>
    /\ UNCHANGED <<fs0, files, opts, fileInfos, plan, srcSet, counter, nstat,
                   gen, srt, calls,
                   args>>

\* the final loop moves on from entry src: to the next entry, or returns nil
FinalAdvance(src) ==
    /\ todo' = todo \ {src}
    /\ cur' = << >>
    /\ IF todo \ {src} = {} THEN Return(ErrNil)
       ELSE /\ pc' = "final"
            /\ err' = err

\* temps[src], "" when src is no key of temps
TempOf(src) == IF src \in DOMAIN temps THEN temps[src] ELSE << >>

\* force mode, second loop, one entry of the range over plan: skip
\* src == dst, remove dst if it exists
FinalCheck ==
    /\ pc = "final"
    /\ \E src \in todo :
          LET dst == plan[src] IN
          IF src = dst
          THEN /\ FinalAdvance(src)
               /\ UNCHANGED <<fs, nstat, nmut>>
          ELSE IF TempOf(src) = << >>
          THEN /\ Return(ErrMissingTemp)
               /\ UNCHANGED <<fs, nstat, nmut, todo, cur>>
          ELSE /\ nstat' = nstat + 1
               /\ IF StatOk(fs, dst)
                  THEN /\ fs' = RemoveFs(fs, dst)
                       /\ nmut' = nmut + 1
                  ELSE UNCHANGED <<fs, nmut>>
               /\ pc' = "final_rename"
               /\ cur' = src
               /\ UNCHANGED <<todo, err>>
    /\ UNCHANGED <<fs0, files, opts, fileInfos, plan, srcSet, temp, temps,
                   counter, gen, srt, calls,
                   args>>

\* force mode: os.Rename(temp, dst) of the entry just checked
FinalRename ==
    /\ pc = "final_rename"
    /\ LET src == cur
           dst == plan[cur]
       IN  IF RenameOk(fs, TempOf(src), dst)
           THEN /\ fs' = RenameFs(fs, TempOf(src), dst)
                /\ nmut' = nmut + 1
                /\ FinalAdvance(src)
           ELSE /\ Return(ErrTempToDst)
                /\ UNCHANGED <<fs, nmut, todo, cur>>
    /\ UNCHANGED <<fs0, files, opts, fileInfos, plan, srcSet, temp, temps,
                   counter, nstat, gen, srt, calls,
                   args>>

Next ==
    \/ \E fl \in InputLists, o \in InputOptions : Call(fl, o)
    \/ DirectCheck
    \/ DirectRename
    \/ StagePick
    \/ TempTry
    \/ StageRename
    \/ FinalCheck
    \/ FinalRename

Spec == Init /\ [][Next]_vars

(***************************************************************************)
(* generateNewName on its own: inputs drawn from bounded sets              *)
(***************************************************************************)
\* a source path with the extension and the directory prefix it has
GenCases ==
    {[path |-> <<"a", ".", "t">>, ext |-> <<".", "t">>, prefix |-> << >>],
     [path |-> <<"b">>, ext |-> << >>, prefix |-> << >>],
     [path |-> <<"d", "/", "c", ".", "t">>, ext |-> <<".", "t">>,
      prefix |-> <<"d", "/">>],
     [path |-> <<"a", ".", "b", ".", "t">>, ext |-> <<".", "t">>,
      prefix |-> << >>]}

GenOptions ==
    [Pre : {<< >>, <<"p">>}, Post : {<< >>, <<"q">>},
     Pattern : {<<"0">>, <<"0", "0">>, <<"x">>, <<"x", "x", "x">>,
                <<"0", "x", "0">>, <<"X", "X">>},
     Reverse : {FALSE}, FileMode : {SortBySize}, Init : 0..MaxGenInit,
     ForceOverwrite : {FALSE}]

InitGen ==
    /\ fs = << >>
    /\ fs0 = fs
    /\ pc = "idle"
    /\ files = << >>
    /\ opts = NoOptions
    /\ fileInfos = << >>
    /\ plan = << >>
    /\ srcSet = {}
    /\ todo = {}
    /\ cur = << >>
    /\ temp = << >>
    /\ temps = << >>
    /\ counter = 0
    /\ err = ErrNil
    /\ nstat = 0
    /\ nmut = 0
    /\ gen \in [pending : {TRUE}, path : {c.path : c \in GenCases},
                index : 0..MaxGenIndex, opts : GenOptions, out : {<< >>}]
    /\ srt = NoSort
    /\ calls = 0
    /\ args = << >>

\* one application of generateNewName
Generate ==
    /\ gen.pending
    /\ gen' = [gen EXCEPT
                 !.pending = FALSE,
                 !.out = generateNewName([EmptyFileInfo EXCEPT !.Path = gen.path],
                                         gen.index, gen.opts)]
    /\ UNCHANGED <<callVars, srt>>

NextGen == Generate

SpecGen == InitGen /\ [][NextGen]_vars

(***************************************************************************)
(* sortFiles on its own: inputs drawn from bounded sets                    *)
(***************************************************************************)
\* Size, CreateTime, ModTime and AccessTime of the records sorted: under
\* each key some of them tie and some differ
SortKeys ==
    {<<0, 0, 0, 0>>, <<1, 0, 2, 1>>, <<2, 1, 1, 1>>, <<0, 2, 0, 2>>}

SortRecords ==
    {[Path |-> p, Size |-> k[1], CreateTime |-> k[2], ModTime |-> k[3],
      AccessTime |-> k[4]] : p \in Universe, k \in SortKeys}

\* slices of records with pairwise distinct paths, in any order
SortInputs ==
    {s \in UNION {[1..n -> SortRecords] : n \in 0..Cardinality(Universe)} :
        \A i, j \in DOMAIN s : s[i].Path = s[j].Path => i = j}

SortModes ==
    {SortByCreationTime, SortByModificationTime, SortByAccessTime, SortBySize}

InitSort ==
    /\ fs = << >>
    /\ fs0 = fs
    /\ pc = "idle"
    /\ files = << >>
    /\ opts = NoOptions
    /\ fileInfos = << >>
    /\ plan = << >>
    /\ srcSet = {}
    /\ todo = {}
    /\ cur = << >>
    /\ temp = << >>
    /\ temps = << >>
    /\ counter = 0
    /\ err = ErrNil
    /\ nstat = 0
    /\ nmut = 0
    /\ gen = NoGen
    /\ srt \in [pending : {TRUE}, input : SortInputs, mode : SortModes,
                asc : {<< >>}, desc : {<< >>}]
    /\ calls = 0
    /\ args = << >>

\* sortFiles applied to the same slice with reverse false and reverse true
Sort ==
    /\ srt.pending
    /\ \E a \in sortFiles(srt.input, srt.mode, FALSE),
          d \in sortFiles(srt.input, srt.mode, TRUE) :
          srt' = [srt EXCEPT !.pending = FALSE, !.asc = a, !.desc = d]
    /\ UNCHANGED <<callVars, gen>>

NextSort == Sort

SpecSort == InitSort /\ [][NextSort]_vars

(***************************************************************************)
(* RenameFiles on a batch that spans several directories                   *)
(***************************************************************************)
\* the listed paths, with the directory prefix and the extension each has:
\* a file in d, a file in e whose name starts with its only dot, and a file
\* without extension in the working directory
DirCases ==
    {[path |-> <<"d", "/", "a", ".", "t">>, prefix |-> <<"d", "/">>,
      ext |-> <<".", "t">>, kind |-> "A"],
     [path |-> <<"e", "/", ".", "t">>, prefix |-> <<"e", "/">>,
      ext |-> <<".", "t">>, kind |-> "B"],
     [path |-> <<"c">>, prefix |-> << >>, ext |-> << >>, kind |-> "C"]}

DirPaths == {c.path : c \in DirCases}

\* a file outside the batch that may occupy the first name numbered in d
DirOccupant == <<"d", "/", "0", ".", "t">>

\* the first temp name force mode tries for that name: a file an
\* interrupted earlier run may have left behind
DirLeftover == TempName(DirOccupant, Pid, 0)

DirsFs ==
    LET batch == [p \in DirPaths |->
                    NodeOf(p, (CHOOSE c \in DirCases : c.path = p).kind)]
    IN  {batch,
         [p \in DirPaths \cup {DirOccupant} |->
             IF p = DirOccupant THEN NodeOf(p, "A") ELSE batch[p]],
         [p \in DirPaths \cup {DirOccupant, DirLeftover} |->
             IF p \in {DirOccupant, DirLeftover} THEN NodeOf(p, "A")
             ELSE batch[p]]}

DirLists ==
    {l \in UNION {[1..n -> DirPaths] : n \in 1..Cardinality(DirPaths)} :
        \A i, j \in DOMAIN l : l[i] = l[j] => i = j}

DirOptions ==
    [Pre : {<< >>, <<"p">>}, Post : {<< >>, <<"q">>}, Pattern : {<<"0">>},
     Reverse : BOOLEAN, FileMode : {SortBySize}, Init : 0..MaxInit,
     ForceOverwrite : BOOLEAN]

InitDirs ==
    /\ fs \in DirsFs
    /\ fs0 = fs
    /\ pc = "idle"
    /\ files = << >>
    /\ opts = NoOptions
    /\ fileInfos = << >>
    /\ plan = << >>
    /\ srcSet = {}
    /\ todo = {}
    /\ cur = << >>
    /\ temp = << >>
    /\ temps = << >>
    /\ counter = 0
    /\ err = ErrNil
    /\ nstat = 0
    /\ nmut = 0
    /\ gen = NoGen
    /\ srt = NoSort
    /\ calls = 0
    /\ args = << >>

NextDirs ==
    \/ \E fl \in DirLists, o \in DirOptions : Call(fl, o)
    \/ DirectCheck
    \/ DirectRename
    \/ StagePick
    \/ TempTry
    \/ StageRename
    \/ FinalCheck
    \/ FinalRename

SpecDirs == InitDirs /\ [][NextDirs]_vars

(***************************************************************************)
(* Two calls in a row: a batch is numbered, then the result is numbered    *)
(* again in reverse                                                        *)
(***************************************************************************)
\* the files of the first call: two with the same extension, and possibly a
\* third without extension
TwoA == <<"a", ".", "t">>
TwoB == <<"b">>
TwoC == <<"c", ".", "t">>

TwoFs ==
    {[p \in S |-> NodeOf(p, IF p = TwoA THEN "A" ELSE IF p = TwoB THEN "B" ELSE "C")] :
        S \in {{TwoA, TwoC}, {TwoA, TwoB, TwoC}}}

\* the orders in which a caller may list the paths of S
ListingsOf(S) ==
    {l \in [1..Cardinality(S) -> S] : \A i, j \in DOMAIN l : l[i] = l[j] => i = j}

InitTwo ==
    /\ fs \in TwoFs
    /\ fs0 = fs
    /\ pc = "idle"
    /\ files = << >>
    /\ opts = NoOptions
    /\ fileInfos = << >>
    /\ plan = << >>
    /\ srcSet = {}
    /\ todo = {}
    /\ cur = << >>
    /\ temp = << >>
    /\ temps = << >>
    /\ counter = 0
    /\ err = ErrNil
    /\ nstat = 0
    /\ nmut = 0
    /\ gen = NoGen
    /\ srt = NoSort
    /\ calls = 0
    /\ args = << >>

\* the first call: ascending, without ForceOverwrite
FirstCall ==
    /\ calls = 0
    /\ \E fl \in ListingsOf(DOMAIN fs),
          o \in [Pre : {<< >>}, Post : {<< >>}, Pattern : {<<"0">>},
                 Reverse : {FALSE},
                 FileMode : {SortByCreationTime, SortBySize}, Init : {1},
                 ForceOverwrite : {FALSE}] :
          Call(fl, o)

\* the paths the call that has returned renamed a file to
RenamedPaths == {q \in DOMAIN fs : q \notin DOMAIN fs0 \/ fs0[q] # fs[q]}

\* the times a rename of the call that has returned may have happened at:
\* later than every time on disk before, RenameTicks clock values apart
RenameTimes ==
    LET last == CHOOSE t \in {fs0[p].ctime : p \in DOMAIN fs0} :
                    \A p \in DOMAIN fs0 : fs0[p].ctime <= t
    IN  (last + 1)..(last + RenameTicks)

\* Between two calls: what os.Stat reports from now on.  On Linux
\* GetOsTime takes CreationTime from Ctim, the inode change time, which
\* rename(2) sets to the time of the rename.  The first call renames in the
\* order of a map range, every order ends in this same state, and the clock
\* may or may not advance between two renames: the renamed files may carry
\* any times in any order.  A call reads the times only before its first
\* rename, so nothing is lost by applying the change once it has returned.
Restat ==
    /\ pc = "done"
    /\ calls = 1
    /\ err = ErrNil
    /\ \E t \in [RenamedPaths -> RenameTimes] :
          fs' = [q \in DOMAIN fs |->
                    IF q \in RenamedPaths THEN [fs[q] EXCEPT !.ctime = t[q]]
                    ELSE fs[q]]
    /\ pc' = "idle"
    /\ UNCHANGED <<fs0, files, opts, fileInfos, plan, srcSet, todo, cur, temp,
                   temps, counter, err, nstat, nmut, gen, srt, calls,
                   args>>

\* the second call: the paths the first call produced, in any order, with
\* the same options but Reverse, with or without ForceOverwrite
SecondCall ==
    /\ calls = 1
    /\ \E fl \in ListingsOf({plan[src] : src \in DOMAIN plan}), force \in BOOLEAN :
          Call(fl, [opts EXCEPT !.Reverse = TRUE, !.ForceOverwrite = force])

NextTwo ==
    \/ FirstCall
    \/ Restat
    \/ SecondCall
    \/ DirectCheck
    \/ DirectRename
    \/ StagePick
    \/ TempTry
    \/ StageRename
    \/ FinalCheck
    \/ FinalRename

SpecTwo == InitTwo /\ [][NextTwo]_vars

(***************************************************************************)
(* The command (cmd/renby): path/filepath Match, Glob and Abs              *)
(***************************************************************************)
\* the working directory of the command
Cwd == <<"/", "w">>

\* filepath.Abs: a relative path is joined to the working directory
Abs(path) ==
    IF Len(path) > 0 /\ path[1] = Sep THEN Clean(path) ELSE Join(Cwd, path)

\* path lies below the directory dir (both absolute and clean)
IsBelow(path, dir) ==
    IF dir = <<Sep>> THEN Len(path) > 1
    ELSE /\ Len(path) > Len(dir) + 1
         /\ SubSeq(path, 1, Len(dir)) = dir
         /\ path[Len(dir) + 1] = Sep

\* os.Lstat(path) returns a nil error: a node of the filesystem, the
\* working directory, or a directory on the way to one of them
LstatOk(f, path) ==
    LET a == Abs(path) IN
    \/ a \in DOMAIN f
    \/ a = Cwd
    \/ \E p \in DOMAIN f \cup {Cwd} : IsBelow(p, a)

\* slices.Sort of a set of names
RECURSIVE SortNames(_)
SortNames(S) ==
    IF S = {} THEN << >>
    ELSE LET m == CHOOSE x \in S : \A y \in S \ {x} : StringLess(x, y, 1)
         IN  <<m>> \o SortNames(S \ {m})

\* hasMeta: the pattern has a character Match treats specially
hasMeta(pattern) ==
    \E i \in 1..Len(pattern) : pattern[i] \in {"*", "?", "["}

\* the index of the ']' that closes the class opened at pattern[i], 0 if the
\* class is malformed: a class lists at least one character before its ']'
ClassEnd(pattern, i) ==
    LET ends == {k \in (i + 2)..Len(pattern) : pattern[k] = "]"} IN
    IF i + 1 > Len(pattern) \/ pattern[i + 1] = "]" \/ ends = {} THEN 0
    ELSE CHOOSE k \in ends : \A m \in ends : k <= m

\* Match reports ErrBadPattern: some class of the pattern is malformed
RECURSIVE BadPatternFrom(_, _)
BadPatternFrom(pattern, i) ==
    IF i > Len(pattern) THEN FALSE
    ELSE IF pattern[i] = "["
    THEN ClassEnd(pattern, i) = 0
           \/ BadPatternFrom(pattern, ClassEnd(pattern, i) + 1)
    ELSE BadPatternFrom(pattern, i + 1)

\* filepath.Match of a well-formed pattern made of literal characters, '*',
\* '?' and classes that list their characters: pattern from i on matches
\* name from j on
RECURSIVE MatchFrom(_, _, _, _)
MatchFrom(pattern, i, name, j) ==
    IF i > Len(pattern) THEN j > Len(name)
    ELSE IF pattern[i] = "*"
    THEN \E k \in j..(Len(name) + 1) :
            /\ \A m \in j..(k - 1) : name[m] # Sep
            /\ MatchFrom(pattern, i + 1, name, k)
    ELSE IF j > Len(name) THEN FALSE
    ELSE IF pattern[i] = "?"
    THEN name[j] # Sep /\ MatchFrom(pattern, i + 1, name, j + 1)
    ELSE IF pattern[i] = "["
    THEN LET k == ClassEnd(pattern, i) IN
         /\ name[j] \in {pattern[m] : m \in (i + 1)..(k - 1)}
         /\ MatchFrom(pattern, k + 1, name, j + 1)
    ELSE name[j] = pattern[i] /\ MatchFrom(pattern, i + 1, name, j + 1)

\* filepath.Glob of a pattern whose directory part has no metacharacter:
\* ErrBadPattern for a malformed pattern; a pattern without metacharacters
\* is returned as spelled if it exists; otherwise the directory part is
\* readied for os.Stat (cleanGlobPath) and, if it is a directory, the names
\* in it (the first element below it of every path below it) that match
\* the file part are returned, sorted, each joined to the directory
Glob(f, pattern) ==
    IF BadPatternFrom(pattern, 1) THEN [matches |-> << >>, err |-> TRUE]
    ELSE IF ~hasMeta(pattern)
    THEN [matches |-> IF LstatOk(f, pattern) THEN <<pattern>> ELSE << >>,
          err |-> FALSE]
    ELSE LET k == LastSep(pattern, Len(pattern))
             part == SubSeq(pattern, 1, k)
             dir == IF part = << >> THEN <<".">>
                    ELSE IF part = <<Sep>> THEN part
                    ELSE SubSeq(part, 1, Len(part) - 1)
             file == SubSeq(pattern, k + 1, Len(pattern))
             a == Abs(dir)
             isDir == IF a \in DOMAIN f THEN f[a].isDir ELSE LstatOk(f, dir)
             skip == IF a = <<Sep>> THEN 1 ELSE Len(a) + 1
             entries == {Split(SubSeq(p, skip + 1, Len(p)))[1] :
                           p \in {q \in DOMAIN f \cup {Cwd} : IsBelow(q, a)}}
             names == SortNames({n \in entries : MatchFrom(file, 1, n, 1)})
         IN  [matches |-> IF isDir
                          THEN [i \in 1..Len(names) |-> Join(dir, names[i])]
                          ELSE << >>,
              err |-> FALSE]

(***************************************************************************)
(* The command: flags, file patterns, run                                  *)
(***************************************************************************)
defaultPattern == <<"0", "0", "0", "0", "0", "0">>

\* the default value of --init
defaultInit == 1

ErrFlagParse == "flag parse error"
ErrInvalidFilePattern == "invalid file pattern"
ErrNoFilesFound == "no files found"

\* the decimal number a flag value denotes: [ok, n]
RECURSIVE AtoiFrom(_, _, _)
AtoiFrom(s, i, acc) ==
    IF i > Len(s) THEN [ok |-> TRUE, n |-> acc]
    ELSE IF \E v \in 0..9 : DigitChars[v + 1] = s[i]
    THEN AtoiFrom(s, i + 1,
                  acc * 10 + (CHOOSE v \in 0..9 : DigitChars[v + 1] = s[i]))
    ELSE [ok |-> FALSE, n |-> 0]

Atoi(s) ==
    IF s = << >> THEN [ok |-> FALSE, n |-> 0]
    ELSE IF s[1] = "-"
    THEN LET r == AtoiFrom(Tail(s), 1, 0) IN
         [ok |-> r.ok /\ Len(s) > 1, n |-> 0 - r.n]
    ELSE AtoiFrom(s, 1, 0)

isValidSubCmd(cmd) ==
    cmd \in {<<"c", "t", "i", "m", "e">>, <<"m", "t", "i", "m", "e">>,
             <<"a", "t", "i", "m", "e">>, <<"s", "i", "z", "e">>}

parseSortMode(cmd) ==
    CASE cmd = <<"c", "t", "i", "m", "e">> -> SortByCreationTime
      [] cmd = <<"m", "t", "i", "m", "e">> -> SortByModificationTime
      [] cmd = <<"a", "t", "i", "m", "e">> -> SortByAccessTime
      [] cmd = <<"s", "i", "z", "e">> -> SortBySize
      [] OTHER -> SortByCreationTime

\* one flag set to a value given as a string
SetFlag(cfg, name, value) ==
    CASE name = <<"p", "a", "t", "t", "e", "r", "n">> ->
            [cfg EXCEPT !.pattern = value]
      [] name = <<"p", "r", "e">> -> [cfg EXCEPT !.pre = value]
      [] name = <<"p", "o", "s", "t">> -> [cfg EXCEPT !.post = value]
      [] name = <<"i", "n", "i", "t">> ->
            IF Atoi(value).ok THEN [cfg EXCEPT !.init = Atoi(value).n]
            ELSE [cfg EXCEPT !.err = ErrFlagParse]
      [] OTHER -> [cfg EXCEPT !.err = ErrFlagParse]

\* one boolean flag given without a value
SetBoolFlag(cfg, name) ==
    CASE name = <<"r", "e", "v", "e", "r", "s", "e">> ->
            [cfg EXCEPT !.reverse = TRUE]
      [] name = <<"f", "o", "r", "c", "e">> ->
            [cfg EXCEPT !.forceOverwrite = TRUE]
      [] name = <<"h", "e", "l", "p">> -> [cfg EXCEPT !.help = TRUE]
      [] name = <<"v", "e", "r", "s", "i", "o", "n">> ->
            [cfg EXCEPT !.version = TRUE]
      [] OTHER -> [cfg EXCEPT !.err = ErrFlagParse]

\* flags.Parse over a[i..]: "--name", "--name=value", "--name value", "-r",
\* "-p value", "-pvalue"; "--" ends the flags; every other argument is a
\* file pattern, wherever it stands
RECURSIVE parseFrom(_, _, _)
parseFrom(a, i, cfg) ==
    IF cfg.err # ErrNil THEN cfg
    ELSE IF i > Len(a) THEN cfg
    ELSE LET t == a[i] IN
         IF t = <<"-", "-">>
         THEN [cfg EXCEPT !.filePatterns = @ \o SubSeq(a, i + 1, Len(a))]
         ELSE IF Len(t) > 2 /\ SubSeq(t, 1, 2) = <<"-", "-">>
         THEN LET body == SubSeq(t, 3, Len(t))
                  eq == IF \E k \in 1..Len(body) : body[k] = "="
                        THEN CHOOSE k \in 1..Len(body) :
                                body[k] = "=" /\ \A j \in 1..(k - 1) : body[j] # "="
                        ELSE 0
              IN  IF eq > 0
                  THEN parseFrom(a, i + 1,
                           SetFlag(cfg, SubSeq(body, 1, eq - 1),
                                   SubSeq(body, eq + 1, Len(body))))
                  ELSE IF SetBoolFlag(cfg, body).err = ErrNil
                  THEN parseFrom(a, i + 1, SetBoolFlag(cfg, body))
                  ELSE IF i = Len(a) THEN [cfg EXCEPT !.err = ErrFlagParse]
                  ELSE parseFrom(a, i + 2, SetFlag(cfg, body, a[i + 1]))
         ELSE IF Len(t) > 1 /\ t[1] = "-"
         THEN IF t = <<"-", "r">>
              THEN parseFrom(a, i + 1,
                       SetBoolFlag(cfg, <<"r", "e", "v", "e", "r", "s", "e">>))
              ELSE IF t[2] = "p" /\ Len(t) > 2
              THEN parseFrom(a, i + 1,
                       SetFlag(cfg, <<"p", "a", "t", "t", "e", "r", "n">>,
                               SubSeq(t, IF t[3] = "=" THEN 4 ELSE 3, Len(t))))
              ELSE IF t[2] = "p" /\ i < Len(a)
              THEN parseFrom(a, i + 2,
                       SetFlag(cfg, <<"p", "a", "t", "t", "e", "r", "n">>,
                               a[i + 1]))
              ELSE [cfg EXCEPT !.err = ErrFlagParse]
         ELSE parseFrom(a, i + 1, [cfg EXCEPT !.filePatterns = Append(@, t)])

\* parseFlags: the flags bound to their defaults, then the arguments
parseFlags(a) ==
    LET defaults ==
          [reverse |-> FALSE, pattern |-> defaultPattern, pre |-> << >>,
           post |-> << >>, forceOverwrite |-> FALSE, help |-> FALSE,
           version |-> FALSE, init |-> defaultInit, filePatterns |-> << >>,
           err |-> ErrNil]
        cfg == parseFrom(a, 1, defaults)
    IN
    IF cfg.err # ErrNil THEN cfg
    ELSE IF Len(cfg.filePatterns) = 0
    THEN [cfg EXCEPT !.err = "file pattern required"]
    ELSE cfg

\* removeDuplicates: the absolute path of every file, the first occurrence
\* of each kept
RECURSIVE removeDuplicatesFrom(_, _, _)
removeDuplicatesFrom(fl, i, savedFiles) ==
    IF i > Len(fl) THEN savedFiles
    ELSE LET absPath == Abs(fl[i]) IN
         IF \E k \in 1..Len(savedFiles) : savedFiles[k] = absPath
         THEN removeDuplicatesFrom(fl, i + 1, savedFiles)
         ELSE removeDuplicatesFrom(fl, i + 1, Append(savedFiles, absPath))

\* removeDuplicates keeping every occurrence
removeDuplicatesKeepAll(fl) == [i \in 1..Len(fl) |-> Abs(fl[i])]

removeDuplicates(fl) == removeDuplicatesFrom(fl, 1, << >>)

\* processFilePatterns: [files, warned, err], warned the patterns a warning
\* was printed for
RECURSIVE processFrom(_, _, _, _, _)
processFrom(f, patterns, i, fl, warned) ==
    IF i > Len(patterns)
    THEN IF Len(fl) = 0
         THEN [files |-> << >>, warned |-> warned, err |-> ErrNoFilesFound]
         ELSE [files |-> removeDuplicates(fl), warned |-> warned,
               err |-> ErrNil]
    ELSE LET g == Glob(f, patterns[i]) IN
         IF g.err
         THEN [files |-> << >>, warned |-> warned,
               err |-> ErrInvalidFilePattern]
         ELSE IF Len(g.matches) = 0
         THEN processFrom(f, patterns, i + 1, fl, Append(warned, patterns[i]))
         ELSE processFrom(f, patterns, i + 1, fl \o g.matches, warned)

\* processFilePatterns giving up after the first pattern
processFilePatternsFirstOnly(f, patterns) ==
    processFrom(f, SubSeq(patterns, 1, 1), 1, << >>, << >>)

processFilePatterns(f, patterns) == processFrom(f, patterns, 1, << >>, << >>)

\* run returns e without calling RenameFiles
RunReturn(e) ==
    /\ Return(e)
    /\ UNCHANGED <<fs, fs0, files, opts, fileInfos, plan, srcSet, todo, cur,
                   temp, temps, counter, nstat, nmut, gen, srt, calls, args>>

\* run(args): help and version end the command without an error
Run ==
    /\ pc = "idle"
    /\ calls = 0
    /\ IF Len(args) < 1 THEN RunReturn(ErrNil)
       ELSE IF args[1] \in {<<"-", "-", "h", "e", "l", "p">>,
                            <<"-", "-", "v", "e", "r", "s", "i", "o", "n">>}
       THEN RunReturn(ErrNil)
       ELSE IF ~isValidSubCmd(args[1]) THEN RunReturn("invalid subcommand")
       ELSE LET cfg == parseFlags(Tail(args)) IN
            IF cfg.err # ErrNil THEN RunReturn(cfg.err)
            ELSE IF cfg.help \/ cfg.version THEN RunReturn(ErrNil)
            ELSE LET r == processFilePatterns(fs, cfg.filePatterns) IN
                 IF r.err # ErrNil THEN RunReturn(r.err)
                 ELSE Call(r.files,
                           [Pre |-> cfg.pre, Post |-> cfg.post,
                            Pattern |-> cfg.pattern, Reverse |-> cfg.reverse,
                            FileMode |-> parseSortMode(args[1]),
                            Init |-> cfg.init,
                            ForceOverwrite |-> cfg.forceOverwrite])

(***************************************************************************)
(* The command on its own directory: three files *.p, one file a.j         *)
(***************************************************************************)
CliA == <<"/", "w", "/", "a", ".", "p">>
CliB == <<"/", "w", "/", "b", ".", "p">>
CliC == <<"/", "w", "/", "c", ".", "p">>
CliJ == <<"/", "w", "/", "a", ".", "j">>

\* the creation times of the three *.p files are not in the order of their
\* names: b.p is the oldest, a.p the newest
CliFs ==
    {[p \in S |-> NodeOf(p, CASE p = CliA -> "C"
                              [] p = CliB -> "A"
                              [] p = CliC -> "B"
                              [] OTHER -> "A")] :
        S \in {{CliA, CliB, CliC, CliJ}, {CliJ}}}

\* the command lines: "ctime", flags, file patterns; those that end before
\* the file patterns are read; and "size" with a flag after the pattern
CliArgs ==
    {<<<<"c", "t", "i", "m", "e">>>> \o fl \o pats :
        fl \in {<< >>,
                <<<<"-", "r">>>>,
                <<<<"-", "p">>, <<"0">>>>,
                <<<<"-", "-", "f", "o", "r", "c", "e">>, <<"-", "p">>, <<"0">>,
                  <<"-", "-", "i", "n", "i", "t", "=", "0">>>>},
        pats \in UNION {[1..n -> {<<"*", ".", "p">>, <<"*", ".", "j">>,
                                  <<"*", ".", "n">>,
                                  <<".", "/", "a", ".", "p">>, <<"[">>}] :
                           n \in 0..MaxPatterns}}
    \cup {<< >>,
          <<<<"-", "-", "h", "e", "l", "p">>>>,
          <<<<"n", "a", "m", "e">>, <<"*", ".", "p">>>>,
          <<<<"s", "i", "z", "e">>, <<"-", "-", "h", "e", "l", "p">>,
            <<"*", ".", "p">>>>,
          <<<<"s", "i", "z", "e">>, <<"-", "-", "n", "o">>,
            <<"*", ".", "p">>>>,
          <<<<"s", "i", "z", "e">>, <<"*", ".", "p">>,
            <<"-", "-", "f", "o", "r", "c", "e">>>>}

InitCli ==
    /\ fs \in CliFs
    /\ fs0 = fs
    /\ pc = "idle"
    /\ files = << >>
    /\ opts = NoOptions
    /\ fileInfos = << >>
    /\ plan = << >>
    /\ srcSet = {}
    /\ todo = {}
    /\ cur = << >>
    /\ temp = << >>
    /\ temps = << >>
    /\ counter = 0
    /\ err = ErrNil
    /\ nstat = 0
    /\ nmut = 0
    /\ gen = NoGen
    /\ srt = NoSort
    /\ calls = 0
    /\ args \in CliArgs

NextCli ==
    \/ Run
    \/ DirectCheck
    \/ DirectRename
    \/ StagePick
    \/ TempTry
    \/ StageRename
    \/ FinalCheck
    \/ FinalRename

SpecCli == InitCli /\ [][NextCli]_vars

(***************************************************************************)
(* RenameFiles on a filesystem whose calls may fail: os.Rename and         *)
(* os.Remove may return an error for a reason the model of the filesystem  *)
(* does not hold (permissions, an I/O error); the call then takes the      *)
(* error branch of that call.                                              *)
(***************************************************************************)
ErrRemove == "failed to remove existing destination"

\* DirectRenameFails undoing the renames made so far
DirectRenameFailsRollback ==
    /\ pc = "direct_rename"
    /\ Return(ErrRename)
    /\ fs' = fs0
    /\ nmut' = nmut + nmut
    /\ UNCHANGED <<fs0, files, opts, fileInfos, plan, srcSet, todo, cur, temp,
                   temps, counter, nstat, gen, srt, calls, args>>

\* direct mode: os.Rename(src, dst) returns an error
DirectRenameFails ==
    /\ pc = "direct_rename"
    /\ Return(ErrRename)
    /\ UNCHANGED <<fs, fs0, files, opts, fileInfos, plan, srcSet, todo, cur,
                   temp, temps, counter, nstat, nmut, gen, srt, calls, args>>

\* StageRenameFails removing the temp files made so far
StageRenameFailsCleanup ==
    /\ pc = "stage_rename"
    /\ Return(ErrMoveToTemp)
    /\ fs' = [p \in DOMAIN fs \ {temps[s] : s \in DOMAIN temps} |-> fs[p]]
    /\ nmut' = nmut + Cardinality(DOMAIN temps)
    /\ UNCHANGED <<fs0, files, opts, fileInfos, plan, srcSet, todo, cur, temp,
                   temps, counter, nstat, gen, srt, calls, args>>

\* force mode: os.Rename(src, temp) returns an error
StageRenameFails ==
    /\ pc = "stage_rename"
    /\ Return(ErrMoveToTemp)
    /\ UNCHANGED <<fs, fs0, files, opts, fileInfos, plan, srcSet, todo, cur,
                   temp, temps, counter, nstat, nmut, gen, srt, calls, args>>

\* force mode, second loop: dst exists and os.Remove(dst) returns an error
FinalRemoveFails ==
    /\ pc = "final"
    /\ \E src \in todo :
          /\ src # plan[src]
          /\ TempOf(src) # << >>
          /\ StatOk(fs, plan[src])
    /\ nstat' = nstat + 1
    /\ Return(ErrRemove)
    /\ UNCHANGED <<fs, fs0, files, opts, fileInfos, plan, srcSet, todo, cur,
                   temp, temps, counter, nmut, gen, srt, calls, args>>

\* force mode: os.Rename(temp, dst) returns an error
FinalRenameFails ==
    /\ pc = "final_rename"
    /\ Return(ErrTempToDst)
    /\ UNCHANGED <<fs, fs0, files, opts, fileInfos, plan, srcSet, todo, cur,
                   temp, temps, counter, nstat, nmut, gen, srt, calls, args>>

NextFault ==
    \/ Next
    \/ DirectRenameFails
    \/ StageRenameFails
    \/ FinalRemoveFails
    \/ FinalRenameFails

SpecFault == Init /\ [][NextFault]_vars

(***************************************************************************)
(* The direct loop as a function of the order the range over plan takes    *)
(***************************************************************************)
\* the direct loop from the i-th entry of the order on: the filesystem it
\* leaves and the error it returns
RECURSIVE DirectLoop(_, _, _, _, _)
DirectLoop(f, pl, sources, order, i) ==
    IF i > Len(order) THEN [fs |-> f, err |-> ErrNil]
    ELSE LET src == order[i]
             dst == pl[src]
         IN  IF src = dst THEN DirectLoop(f, pl, sources, order, i + 1)
             ELSE IF StatOk(f, dst)
             THEN [fs |-> f, err |-> DirectExistsError(dst, sources)]
             ELSE IF ~RenameOk(f, src, dst) THEN [fs |-> f, err |-> ErrRename]
             ELSE DirectLoop(RenameFs(f, src, dst), pl, sources, order, i + 1)

(***************************************************************************)
(* RenameFiles beside another process: while the commit loops run, another *)
(* process may create a file at a planned destination that is free.        *)
(***************************************************************************)
\* the file the other process creates: it has no path from the start
ExternalNode ==
    [orig |-> << >>, isDir |-> FALSE, size |-> 0, ctime |-> 3, mtime |-> 3,
     atime |-> 3]

\* the other process creates its file, once, at a free planned destination
ExternalCreate ==
    /\ pc \notin {"idle", "done"}
    /\ \A q \in DOMAIN fs : fs[q] # ExternalNode
    /\ \E src \in DOMAIN plan :
          /\ ~StatOk(fs, plan[src])
          /\ fs' = [q \in DOMAIN fs \cup {Clean(plan[src])} |->
                       IF q = Clean(plan[src]) THEN ExternalNode ELSE fs[q]]
    /\ UNCHANGED <<fs0, pc, files, opts, fileInfos, plan, srcSet, todo, cur,
                   temp, temps, counter, err, nstat, nmut, gen, srt, calls,
                   args>>

NextExt ==
    \/ Next
    \/ ExternalCreate

SpecExt == Init /\ [][NextExt]_vars

(***************************************************************************)
(* Planning on its own: RenameFiles up to the commit loops, over files     *)
(* with and without an extension in two directories, and Options whose     *)
(* prefix, suffix, width, base and Init vary                               *)
(***************************************************************************)
InitPlan ==
    /\ fs = [p \in {<<"b">>, <<"c">>, <<"a", ".", "t">>, <<"d", "/", "b">>} |->
                NodeOf(p, CASE p = <<"b">> -> "A"
                            [] p = <<"c">> -> "B"
                            [] OTHER -> "C")]
    /\ fs0 = fs
    /\ pc = "idle"
    /\ files = << >>
    /\ opts = NoOptions
    /\ fileInfos = << >>
    /\ plan = << >>
    /\ srcSet = {}
    /\ todo = {}
    /\ cur = << >>
    /\ temp = << >>
    /\ temps = << >>
    /\ counter = 0
    /\ err = ErrNil
    /\ nstat = 0
    /\ nmut = 0
    /\ gen = NoGen
    /\ srt = NoSort
    /\ calls = 0
    /\ args = << >>

\* the call, on lists of distinct paths; Init 9 and 15 step over the width
\* of a one-character pattern in base 10 and 16
NextPlan ==
    \E fl \in {l \in UNION {[1..n -> DOMAIN fs] : n \in 1..MaxFiles} :
                 \A i, j \in DOMAIN l : l[i] = l[j] => i = j},
       o \in [Pre : {<< >>, <<"p">>},
              Post : {<< >>, <<"q">>, <<"/", ".", ".">>},
              Pattern : {<<"0">>, <<"x">>, <<"0", "0">>},
              Reverse : {FALSE}, FileMode : {SortBySize},
              Init : {0, 9, 15}, ForceOverwrite : BOOLEAN] :
        Call(fl, o)

SpecPlan == InitPlan /\ [][NextPlan]_vars

(***************************************************************************)
(* The same call twice: a batch of files of distinct sizes is numbered by  *)
(* size, then the result is numbered again with the same Options           *)
(***************************************************************************)
\* the first call: by size, with a prefix or a suffix that may hold a dot
SizeCall ==
    /\ calls = 0
    /\ \E fl \in ListingsOf(DOMAIN fs),
          o \in [Pre : {<< >>, <<"v", ".">>}, Post : {<< >>, <<"q">>, <<".", "x">>},
                 Pattern : {<<"0">>}, Reverse : BOOLEAN, FileMode : {SortBySize},
                 Init : {1}, ForceOverwrite : BOOLEAN] :
          Call(fl, o)

\* the second call: the paths the first call produced, in any order, with
\* the same Options, with or without ForceOverwrite
SameCall ==
    /\ calls = 1
    /\ \E fl \in ListingsOf({plan[src] : src \in DOMAIN plan}), force \in BOOLEAN :
          Call(fl, [opts EXCEPT !.ForceOverwrite = force])

NextAgain ==
    \/ SizeCall
    \/ Restat
    \/ SameCall
    \/ DirectCheck
    \/ DirectRename
    \/ StagePick
    \/ TempTry
    \/ StageRename
    \/ FinalCheck
    \/ FinalRename

SpecAgain == InitTwo /\ [][NextAgain]_vars

(***************************************************************************)
(* A prefix so long that the destination names still fit the filesystem's  *)
(* limit on a name while the temp names of force mode, fourteen or more    *)
(* bytes longer, do not; the call runs on, a step at a time                *)
(***************************************************************************)
LongCall ==
    /\ calls = 0
    /\ \E fl \in ListingsOf(DOMAIN fs),
          o \in [Pre : {<< >>, [i \in 1..(NameMax - 14) |-> "p"]}, Post : {<< >>},
                 Pattern : {<<"0">>}, Reverse : BOOLEAN,
                 FileMode : {SortBySize, SortByCreationTime}, Init : {1},
                 ForceOverwrite : BOOLEAN] :
          Call(fl, o)

NextLong ==
    \/ LongCall
    \/ DirectCheck
    \/ DirectRename
    \/ StagePick
    \/ TempTry
    \/ StageRename
    \/ FinalCheck
    \/ FinalRename

\* A call that has started keeps running: its next step is taken.  The
\* turn of the temp-name loop is the one step at "stage_temp", and the one
\* that advances the counter there.
SpecLong ==
    /\ InitTwo
    /\ [][NextLong]_vars
    /\ WF_vars(DirectCheck \/ DirectRename \/ StagePick \/ StageRename
                   \/ FinalCheck \/ FinalRename)
    /\ WF_counter(pc = "stage_temp"
                     /\ counter' = (counter + 1) % (MaxCounter + 1))

(***************************************************************************)
(* Callers that spell a relative path with a leading "./"                  *)
(***************************************************************************)
SpelledCall ==
    /\ calls = 0
    /\ \E fl \in InputLists, dotted \in SUBSET (1..MaxFiles),
          o \in [Pre : {<< >>}, Post : {<< >>}, Pattern : {<<"0">>},
                 Reverse : {FALSE}, FileMode : {SortBySize}, Init : 0..MaxInit,
                 ForceOverwrite : BOOLEAN] :
          /\ fl # << >>
          /\ dotted \subseteq DOMAIN fl
          /\ Call([i \in DOMAIN fl |->
                      IF i \in dotted THEN <<".", "/">> \o fl[i] ELSE fl[i]], o)

NextSpell ==
    \/ SpelledCall
    \/ DirectCheck
    \/ DirectRename
    \/ StagePick
    \/ TempTry
    \/ StageRename
    \/ FinalCheck
    \/ FinalRename

SpecSpell == Init /\ [][NextSpell]_vars

(***************************************************************************)
(* Properties                                                              *)
(***************************************************************************)
Started == pc # "idle"

Done == pc = "done"

ValidOptions == opts.Pattern # << >> /\ opts.Init >= 0

\* every listed path could be stat'ed when the call was made
AllListed == \A i \in 1..Len(files) : Clean(files[i]) \in DOMAIN fs0

\* the call built a plan
Planned == Started /\ DOMAIN plan # {}

\* the filesystem is as it was at the call, and nothing was ever changed
Untouched == fs = fs0 /\ nmut = 0

\* the error message contains "conflicts detected"
ConflictsDetected == err \in {ErrConflictsAbort, ErrConflictSource}

\* the paths where the node that was at path p at the call is found now
PlacesOf(p) == {q \in DOMAIN fs : fs[q] = fs0[Clean(p)]}

\* the file name made of the one-digit number n and the extension ".t"
NumberedName(n) == <<DigitChars[n + 1], ".", "t">>

\* the attribute a sort mode selects
KeyOf(node, mode) ==
    CASE mode = SortByCreationTime -> node.ctime
      [] mode = SortByModificationTime -> node.mtime
      [] mode = SortByAccessTime -> node.atime
      [] OTHER -> node.size

\* some planned destination existed at planning time and is no source
OutsideCollision ==
    \E src \in DOMAIN plan :
        plan[src] \notin srcSet /\ Clean(plan[src]) \in DOMAIN fs0

\* C1: without ForceOverwrite, when a planned destination exists on disk at
\* planning time and is not a source of the batch, the call returns
\* "conflicts detected, aborting" and the filesystem is exactly as before.
C1_OutsideCollisionAborts ==
    (Planned /\ ~opts.ForceOverwrite /\ OutsideCollision) =>
        (Done /\ err = ErrConflictsAbort /\ Untouched)

C1_Witness ==
    /\ Done
    /\ ~opts.ForceOverwrite
    /\ OutsideCollision
    /\ Cardinality(srcSet) = 2
    /\ err = ErrConflictsAbort

\* some entry of the plan moves a file onto the path of another source
Overlap ==
    \E src \in DOMAIN plan : plan[src] # src /\ plan[src] \in srcSet

\* C2: with ForceOverwrite, when planned destinations are names of the
\* batch's own sources (swap, cycle, chain), every batch file exists under
\* exactly one path in every intermediate state, and the call ends with nil
\* and every batch file at its planned destination.
C2_ForceCyclesSafe ==
    (Planned /\ opts.ForceOverwrite /\ Overlap) =>
        /\ \A src \in srcSet : Cardinality(PlacesOf(src)) = 1
        /\ Done => /\ err = ErrNil
                   /\ \A src \in srcSet :
                         /\ Clean(plan[src]) \in DOMAIN fs
                         /\ fs[Clean(plan[src])] = fs0[Clean(src)]

C2_Witness ==
    /\ Done
    /\ opts.ForceOverwrite
    /\ err = ErrNil
    /\ Cardinality(srcSet) = 3
    /\ \A src \in srcSet : plan[src] # src /\ plan[src] \in srcSet
    /\ \A src \in srcSet : fs[plan[src]] = fs0[src]

\* C3: whenever a call without ForceOverwrite returns an error containing
\* "conflicts detected", it has changed nothing on the filesystem.
C3_CollisionErrorWithoutMutation ==
    (Done /\ ~opts.ForceOverwrite /\ ConflictsDetected) => Untouched

\* the plan has an entry that moves a file, and every such entry has a
\* destination occupied by another source of the batch
PermutesOwnNames ==
    /\ \E src \in DOMAIN plan : plan[src] # src
    /\ \A src \in DOMAIN plan :
          plan[src] # src =>
              /\ plan[src] \in srcSet
              /\ Clean(plan[src]) \in DOMAIN fs0

\* C4: without ForceOverwrite, when the plan has entries that move a file
\* and each of them has a destination occupied by another source of the
\* batch, no rename is ever made and the call returns an error containing
\* "conflicts detected", in whatever order the entries are visited.
C4_OwnNameCollisionRenamesNothing ==
    (Planned /\ ~opts.ForceOverwrite /\ PermutesOwnNames) =>
        /\ Untouched
        /\ pc # "direct_rename"
        /\ Done => ConflictsDetected

C4_Witness ==
    /\ Done
    /\ ~opts.ForceOverwrite
    /\ PermutesOwnNames
    /\ Cardinality(srcSet) = 3
    /\ \E src \in DOMAIN plan : plan[src] = src
    /\ todo # DOMAIN plan
    /\ err = ErrConflictSource

\* the keys of the batch's files are pairwise distinct
DistinctKeys ==
    \A a, b \in srcSet :
        a # b => KeyOf(fs0[Clean(a)], opts.FileMode) # KeyOf(fs0[Clean(b)], opts.FileMode)

\* number of batch files with a key smaller than that of src
RankOf(src) ==
    Cardinality({a \in srcSet :
        KeyOf(fs0[Clean(a)], opts.FileMode) < KeyOf(fs0[Clean(src)], opts.FileMode)})

\* C5: after a successful call with Reverse = false on files whose selected
\* keys are pairwise distinct, the file with the k-th smallest key is found
\* at the destination numbered Init + k.
C5_AscendingOrderNumbers ==
    (Planned /\ Done /\ err = ErrNil /\ ~opts.Reverse /\ DistinctKeys) =>
        \A src \in srcSet :
            LET d == NumberedName(opts.Init + RankOf(src)) IN
            /\ d \in DOMAIN fs
            /\ fs[d] = fs0[Clean(src)]

\* sizes 1, 0, 2 at 1.t, 2.t, 3.t, Init 1: 1.t = the size-0 file, 2.t = the
\* size-1 file, 3.t = the size-2 file
C5_Witness ==
    /\ Done
    /\ err = ErrNil
    /\ ~opts.Reverse
    /\ opts.FileMode = SortBySize
    /\ opts.Init = 1
    /\ srcSet = {P1, P2, P3}
    /\ DistinctKeys
    /\ fs0[P1].size = 1 /\ fs0[P2].size = 0 /\ fs0[P3].size = 2
    /\ fs[P1] = fs0[P2] /\ fs[P2] = fs0[P1] /\ fs[P3] = fs0[P3]

\* the value of a digit character, -1 if it is none
DigitValue(c) ==
    IF \E v \in 0..15 : DigitChars[v + 1] = c
    THEN CHOOSE v \in 0..15 : DigitChars[v + 1] = c
    ELSE -1

\* the number a string of digits denotes in the given base, -1 if some
\* character is no digit of that base
RECURSIVE ParseUint(_, _, _, _)
ParseUint(str, base, i, acc) ==
    IF i > Len(str) THEN acc
    ELSE IF DigitValue(str[i]) < 0 \/ DigitValue(str[i]) >= base THEN -1
    ELSE ParseUint(str, base, i + 1, acc * base + DigitValue(str[i]))

\* the case of GenCases the generated name was made for
GenCase == CHOOSE c \in GenCases : c.path = gen.path

\* the base the pattern selects: 16 if it has an 'x' anywhere, else 10
GenBase ==
    IF \E i \in 1..Len(gen.opts.Pattern) : gen.opts.Pattern[i] = "x"
    THEN 16 ELSE 10

\* the part of the generated name between prefix+Pre and Post+extension
GenNumber ==
    SubSeq(gen.out,
           Len(GenCase.prefix) + Len(gen.opts.Pre) + 1,
           Len(gen.out) - Len(gen.opts.Post) - Len(GenCase.ext))

C7_InvalidOptionsRejectedFirst ==
    (Started /\ ~ValidOptions) =>
        /\ Done
        /\ opts.Pattern = << >> =>
              err = "invalid options: pattern cannot be empty"
        /\ (opts.Pattern # << >> /\ opts.Init < 0) =>
              err = "invalid options: init value must be non-negative"
        /\ nstat = 0
        /\ Untouched

C7_Witness ==
    /\ Done
    /\ opts.Init < 0
    /\ opts.Pattern # << >>
    /\ Len(files) = 2
    /\ ~AllListed
    /\ \E i \in 1..Len(files) : files[i] \in DOMAIN fs0
    /\ err = "invalid options: init value must be non-negative"

\* C8: if os.Stat fails for a listed path, whatever its position, the call
\* returns an error and renames nothing.
C8_StatFailureRenamesNothing ==
    (Started /\ ~AllListed) => (Done /\ err # ErrNil /\ Untouched)

C8_Witness ==
    /\ Done
    /\ ValidOptions
    /\ Len(files) = 3
    /\ files[1] \in DOMAIN fs0
    /\ files[2] \in DOMAIN fs0
    /\ files[3] \notin DOMAIN fs0
    /\ ~fs0[files[1]].isDir
    /\ ~fs0[files[2]].isDir
    /\ err = ErrStat

\* C9: a call with an empty list and valid options returns nil and changes
\* nothing.
C9_EmptyListIsNoOp ==
    (Started /\ files = << >> /\ ValidOptions) =>
        (Done /\ err = ErrNil /\ Untouched)

C9_Witness ==
    /\ Done
    /\ files = << >>
    /\ ValidOptions
    /\ opts.Init = 0
    /\ err = ErrNil
    /\ DOMAIN fs # {}

\* the listed paths that were directories at the call
ListedDirs ==
    {files[i] : i \in {j \in 1..Len(files) :
        Clean(files[j]) \in DOMAIN fs0 /\ fs0[Clean(files[j])].isDir}}

\* C10: listed directories are dropped without error: a directory is no
\* source of the plan and is never found under another path, the planned
\* destinations are numbered Init, Init+1, ... without a gap for it, and a
\* list of directories only returns nil without changing anything.
C10_DirectoriesDropped ==
    (Started /\ ValidOptions /\ AllListed) =>
        /\ ListedDirs \cap srcSet = {}
        /\ \A q \in DOMAIN fs : fs[q].isDir => fs[q].orig = q
        /\ err # ErrStat
        /\ Cardinality(srcSet) = Len(files) - Cardinality(ListedDirs)
        /\ {plan[src] : src \in DOMAIN plan} =
              {NumberedName(opts.Init + k) : k \in 0..(Cardinality(srcSet) - 1)}
        /\ (files # << >> /\ Cardinality(ListedDirs) = Len(files)) =>
              (Done /\ err = ErrNil /\ Untouched)

C10_Witness ==
    /\ Done
    /\ err = ErrNil
    /\ Len(files) = 3
    /\ files[1] \in ListedDirs
    /\ Cardinality(srcSet) = 2
    /\ nmut > 0
    /\ \A src \in srcSet : plan[src] # src /\ fs[plan[src]] = fs0[src]
    /\ fs[files[1]] = fs0[files[1]]

\* the listed paths that were no directories when the call was made
ListedFiles ==
    {files[i] : i \in {j \in 1..Len(files) :
        Clean(files[j]) \in DOMAIN fs0 /\ ~fs0[Clean(files[j])].isDir}}

\* C11: after a successful call on a non-empty list of distinct paths, every
\* listed path that was no directory (a zero-byte file included) is found,
\* with the size and times it had, at exactly one path, its planned
\* destination; there are as many such files as non-directory inputs, and
\* their destinations are exactly the names numbered Init .. Init + n - 1.
C11_EveryFileAtOneNumberedName ==
    (Started /\ Done /\ err = ErrNil /\ files # << >>) =>
        LET n == Cardinality(ListedFiles) IN
        /\ srcSet = ListedFiles
        /\ \A src \in ListedFiles :
              /\ src \in DOMAIN plan
              /\ PlacesOf(src) = {Clean(plan[src])}
        /\ Cardinality(UNION {PlacesOf(src) : src \in ListedFiles}) = n
        /\ UNION {PlacesOf(src) : src \in ListedFiles} =
              {NumberedName(opts.Init + k) : k \in 0..(n - 1)}

\* a directory and two files, one of them empty, listed; both files renamed
C11_Witness ==
    /\ Done
    /\ err = ErrNil
    /\ Len(files) = 3
    /\ Cardinality(ListedFiles) = 2
    /\ \E src \in ListedFiles : fs0[src].size = 0 /\ plan[src] # src
                                /\ fs[plan[src]] = fs0[src]
    /\ nmut >= 2

\* the value of the selected key in a collected record
SortKeyOf(fi, mode) ==
    CASE mode = SortByCreationTime -> fi.CreateTime
      [] mode = SortByModificationTime -> fi.ModTime
      [] mode = SortByAccessTime -> fi.AccessTime
      [] OTHER -> fi.Size

\* the records sorted have pairwise distinct values of the selected key
SortedDistinctKeys ==
    \A i, j \in DOMAIN srt.input :
        i # j => SortKeyOf(srt.input[i], srt.mode) # SortKeyOf(srt.input[j], srt.mode)

\* C12: for every sort key, when the key values of the n records are
\* pairwise distinct, the order with Reverse = true is the exact reverse of
\* the order with Reverse = false: the record at ordinal k ascending is at
\* ordinal n - 1 - k descending.
C12_ReverseIsExactReverse ==
    (~srt.pending /\ SortedDistinctKeys) =>
        LET n == Len(srt.input) IN
        /\ Len(srt.asc) = n
        /\ Len(srt.desc) = n
        /\ {srt.asc[k] : k \in 1..n} = {srt.input[k] : k \in 1..n}
        /\ \A k \in 1..n : srt.desc[n + 1 - k] = srt.asc[k]

\* three records with creation times 0, 1, 2 given in the order 1, 2, 0
C12_Witness ==
    /\ ~srt.pending
    /\ srt.mode = SortByCreationTime
    /\ Len(srt.input) = 3
    /\ srt.input[1].CreateTime = 1
    /\ srt.input[2].CreateTime = 2
    /\ srt.input[3].CreateTime = 0
    /\ srt.asc = <<srt.input[3], srt.input[1], srt.input[2]>>
    /\ srt.desc = <<srt.input[2], srt.input[1], srt.input[3]>>

\* the second call of a behaviour of two calls has been made
InSecondCall == calls = 2 /\ Started

\* C13: when a batch has been numbered ascending and the resulting files
\* are numbered again descending with ForceOverwrite, the second call
\* returns no error, and once it is done there are as many files as before
\* it, under pairwise distinct names, and every file that was there before
\* it is found with the same size and attributes under a name with the same
\* extension.
C13_RoundTripLosesNothing ==
    (InSecondCall /\ opts.ForceOverwrite) =>
        /\ err = ErrNil
        /\ Done =>
              /\ Cardinality(DOMAIN fs) = Cardinality(DOMAIN fs0)
              /\ Cardinality({plan[src] : src \in DOMAIN plan}) = Cardinality(DOMAIN fs0)
              /\ \A p \in DOMAIN fs0 :
                    /\ p \in DOMAIN plan
                    /\ PlacesOf(p) = {plan[p]}
                    /\ Ext(plan[p]) = Ext(p)

\* by size b became 1, a.t became 2.t and c.t became 3.t; descending c.t
\* becomes 1.t and b becomes 3, a.t keeps 2.t
C13_Witness ==
    /\ InSecondCall
    /\ Done
    /\ err = ErrNil
    /\ opts.ForceOverwrite
    /\ opts.FileMode = SortBySize
    /\ DOMAIN fs0 = {<<"1">>, <<"2", ".", "t">>, <<"3", ".", "t">>}
    /\ DOMAIN fs = {<<"3">>, <<"2", ".", "t">>, <<"1", ".", "t">>}
    /\ fs[<<"3">>] = fs0[<<"1">>]
    /\ fs[<<"1", ".", "t">>] = fs0[<<"3", ".", "t">>]
    /\ fs[<<"3">>].orig = TwoB
    /\ fs[<<"1", ".", "t">>].orig = TwoC

\* C14: after a first call has renamed two files ascending by creation time
\* in direct mode, a second call on the resulting paths with Reverse and
\* without ForceOverwrite, reading the creation times the platform reports
\* after those renames, always returns an error containing "conflicts
\* detected" and never nil.
C14_ReverseAfterRenameConflicts ==
    (InSecondCall /\ Done /\ ~opts.ForceOverwrite
        /\ opts.FileMode = SortByCreationTime /\ Len(files) = 2) =>
        ConflictsDetected

\* the planned destination of src was, at planning time, a file that is no
\* source of the batch
FileOccupied(src) ==
    /\ plan[src] \notin srcSet
    /\ Clean(plan[src]) \in DOMAIN fs0
    /\ ~fs0[Clean(plan[src])].isDir

\* C15: with ForceOverwrite, a planned destination occupied by a file
\* outside the batch does not make the call fail: no error is returned, and
\* when the call is done the batch file planned for that destination is
\* found there and the former occupant is found nowhere.
C15_ForceReplacesOutsideOccupant ==
    (Planned /\ opts.ForceOverwrite /\ \E src \in DOMAIN plan : FileOccupied(src)) =>
        /\ err = ErrNil
        /\ Done =>
              \A src \in DOMAIN plan :
                  FileOccupied(src) =>
                      /\ Clean(plan[src]) \in DOMAIN fs
                      /\ fs[Clean(plan[src])] = fs0[Clean(src)]
                      /\ PlacesOf(plan[src]) = {}

\* 3.t alone is renamed to 1.t, over the file 1.t that was not listed
C15_Witness ==
    /\ Done
    /\ err = ErrNil
    /\ opts.ForceOverwrite
    /\ files = <<P3>>
    /\ DOMAIN plan = {P3}
    /\ plan[P3] = P1
    /\ FileOccupied(P3)
    /\ fs[P1] = fs0[P3]
    /\ P3 \notin DOMAIN fs
    /\ PlacesOf(P1) = {}

\* C16: an entry of the plan with src = dst is never a collision and is
\* left alone in both modes: at every point of the call the file is at its
\* path as it was, it is not the entry being renamed or staged and has no
\* temp name; a pre-commit abort is always due to a destination outside the
\* batch, and a plan made only of such entries returns no error and changes
\* nothing.
C16_IdentityEntryIsNoOp ==
    Planned =>
        /\ \A src \in DOMAIN plan :
              plan[src] = src =>
                  /\ Clean(src) \in DOMAIN fs
                  /\ fs[Clean(src)] = fs0[Clean(src)]
                  /\ PlacesOf(src) = {Clean(src)}
                  /\ cur # src
                  /\ src \notin DOMAIN temps
        /\ err = ErrConflictsAbort => OutsideCollision
        /\ (\A src \in DOMAIN plan : plan[src] = src) =>
              (err = ErrNil /\ Untouched)

\* direct mode: one file keeps its name while another one is renamed
C16_Witness ==
    /\ Done
    /\ err = ErrNil
    /\ ~opts.ForceOverwrite
    /\ \E src \in DOMAIN plan : plan[src] = src /\ fs[src] = fs0[src]
    /\ \E src \in DOMAIN plan : plan[src] # src /\ fs[plan[src]] = fs0[src]
    /\ nmut = 1

\* the case of DirCases a listed path is
DirCase(p) == CHOOSE c \in DirCases : c.path = p

\* the zero-based position of src in the sorted batch
OrdinalOf(src) == (CHOOSE i \in DOMAIN fileInfos : fileInfos[i].Path = src) - 1

\* path q is a name directly in the directory with prefix pre
InDirectory(q, pre) ==
    /\ Len(q) > Len(pre)
    /\ SubSeq(q, 1, Len(pre)) = pre
    /\ \A i \in (Len(pre) + 1)..Len(q) : q[i] # Sep

RECURSIVE Pow(_, _)
Pow(b, e) == IF e = 0 THEN 1 ELSE b * Pow(b, e - 1)

\* the number of digits n >= 0 has in the given base
RECURSIVE NumDigits(_, _)
NumDigits(n, base) == IF n < base THEN 1 ELSE 1 + NumDigits(n \div base, base)

\* the number rendered into the generated name
GenValue == gen.index + gen.opts.Init

\* C18: when index + Init needs more digits than len(Pattern) in the chosen
\* base, the number in the generated name is not cut: it has all the digits
\* of index + Init, starts with a nonzero digit, denotes index + Init and is
\* longer than the pattern.
C18_OverflowNotTruncated ==
    (~gen.pending /\ gen.path # << >>
        /\ GenValue >= Pow(GenBase, Len(gen.opts.Pattern))) =>
        LET num == GenNumber IN
        /\ Len(num) = NumDigits(GenValue, GenBase)
        /\ Len(num) > Len(gen.opts.Pattern)
        /\ num[1] # "0"
        /\ ParseUint(num, GenBase, 1, 0) = GenValue

\* pattern "0", Init 16, ordinal 2: a.t becomes 18.t
C18_Witness ==
    /\ ~gen.pending
    /\ gen.path = <<"a", ".", "t">>
    /\ gen.opts.Pattern = <<"0">>
    /\ gen.opts.Pre = << >>
    /\ gen.opts.Post = << >>
    /\ gen.opts.Init = 16
    /\ gen.index = 2
    /\ gen.out = <<"1", "8", ".", "t">>

\* the name generateNewName gives the same file at ordinal j
GenNameAt(j) ==
    generateNewName([EmptyFileInfo EXCEPT !.Path = gen.path], j, gen.opts)

\* the part of a generated name between prefix+Pre and Post+extension
NumberIn(name) ==
    SubSeq(name,
           Len(GenCase.prefix) + Len(gen.opts.Pre) + 1,
           Len(name) - Len(gen.opts.Post) - Len(GenCase.ext))

\* C19: name generation is injective over the ordinals of a batch: with a
\* pattern of width w and n <= base^w files, the number rendered for an
\* ordinal differs from the number rendered for every other ordinal of the
\* batch, and so do the names.
C19_NumbersInjective ==
    (~gen.pending /\ gen.path # << >>
        /\ MaxGenIndex + 1 <= Pow(GenBase, Len(gen.opts.Pattern))) =>
        \A j \in 0..MaxGenIndex :
            j # gen.index =>
                /\ NumberIn(GenNameAt(j)) # GenNumber
                /\ GenNameAt(j) # gen.out

\* pattern "x", Init 15, ordinal 1 gives "10", the others "f" and "11"
C19_Witness ==
    /\ ~gen.pending
    /\ gen.path = <<"b">>
    /\ gen.opts.Pattern = <<"x">>
    /\ gen.opts.Pre = << >>
    /\ gen.opts.Post = << >>
    /\ gen.opts.Init = 15
    /\ gen.index = 1
    /\ gen.out = <<"1", "0">>
    /\ GenNameAt(0) = <<"f">>
    /\ GenNameAt(2) = <<"1", "1">>

\* the position of record fi in the slice given to sortFiles
InputIndex(fi) == CHOOSE i \in DOMAIN srt.input : srt.input[i] = fi

\* records of equal key are in the order they had in the input
KeepsInputOrder(out) ==
    \A i, j \in DOMAIN out :
        (i < j /\ SortKeyOf(out[i], srt.mode) = SortKeyOf(out[j], srt.mode)) =>
            InputIndex(out[i]) < InputIndex(out[j])

\* C20: the ordering step is stable: records whose selected key values are
\* equal keep their relative order from the input list, with Reverse = false
\* and with Reverse = true.
C20_StableSort ==
    ~srt.pending => (KeepsInputOrder(srt.asc) /\ KeepsInputOrder(srt.desc))

\* the command line "renby ctime *.p": no -p, no --init
DefaultRun ==
    /\ args = <<<<"c", "t", "i", "m", "e">>, <<"*", ".", "p">>>>
    /\ {CliA, CliB, CliC} \subseteq DOMAIN fs0

\* the name in the working directory made of the digits ds and ".p"
CliName(ds) == Cwd \o <<Sep>> \o ds \o <<".", "p">>

\* C21: run with the default options (no -p, no --init: the default pattern
\* and the initial number 1), "renby ctime *.p" on three .p files produces
\* the names 00001.p, 00002.p and 00003.p, as the README example shows.
C21_DefaultRunFiveDigitNames ==
    (DefaultRun /\ Done /\ err = ErrNil) =>
        /\ PlacesOf(CliB) = {CliName(<<"0", "0", "0", "0", "1">>)}
        /\ PlacesOf(CliC) = {CliName(<<"0", "0", "0", "0", "2">>)}
        /\ PlacesOf(CliA) = {CliName(<<"0", "0", "0", "0", "3">>)}

\* RenameFiles was called by the command
Handed == calls = 1 /\ args # << >>

\* the file patterns of the command line
PatternsGiven == parseFlags(Tail(args)).filePatterns

\* the file at the absolute path p is matched by the pattern: the pattern,
\* made absolute, matches the whole path
MatchedBy(pattern, p) ==
    p \in DOMAIN fs0 /\ MatchFrom(Abs(pattern), 1, p, 1)

\* the first pattern of the command line that matches p
FirstMatch(p) ==
    CHOOSE i \in 1..Len(PatternsGiven) :
        /\ MatchedBy(PatternsGiven[i], p)
        /\ \A k \in 1..(i - 1) : ~MatchedBy(PatternsGiven[k], p)

\* C22: processFilePatterns returns every file matched by at least one
\* pattern exactly once, as an absolute path, in the order of first match:
\* a file matched by several patterns, or by two spellings of its path,
\* appears once, so the list handed to RenameFiles has no duplicate paths.
C22_MatchedFilesOnceAbsoluteInOrder ==
    Handed =>
        /\ {files[i] : i \in 1..Len(files)} =
              {p \in DOMAIN fs0 :
                  \E k \in 1..Len(PatternsGiven) : MatchedBy(PatternsGiven[k], p)}
        /\ \A i, j \in 1..Len(files) : files[i] = files[j] => i = j
        /\ \A i \in 1..Len(files) :
              files[i][1] = Sep /\ Clean(files[i]) = files[i]
        /\ \A i, j \in 1..Len(files) :
              i < j => FirstMatch(files[i]) <= FirstMatch(files[j])

\* "renby size ./a.p *.p": a.p is matched twice, under two spellings
C22_Witness ==
    /\ Handed
    /\ PatternsGiven = <<<<".", "/", "a", ".", "p">>, <<"*", ".", "p">>>>
    /\ files = <<CliA, CliB, CliC>>

\* run has come to processFilePatterns: a valid subcommand, flags that
\* parse, at least one file pattern, neither --help nor --version
PatternsProcessed ==
    /\ Started
    /\ Len(args) > 0
    /\ isValidSubCmd(args[1])
    /\ parseFlags(Tail(args)).err = ErrNil
    /\ ~parseFlags(Tail(args)).help
    /\ ~parseFlags(Tail(args)).version

\* some pattern of the command line matches a file
SomeMatch ==
    \E k \in 1..Len(PatternsGiven), p \in DOMAIN fs0 :
        MatchedBy(PatternsGiven[k], p)

\* C23: processFilePatterns fails with "invalid file pattern" as soon as a
\* pattern is malformed, and with "no files found" when no pattern matched
\* any file; a pattern without matches is otherwise skipped (a warning only)
\* and does not fail the call if another pattern matched.
C23_PatternErrors ==
    PatternsProcessed =>
        IF \E k \in 1..Len(PatternsGiven) : BadPatternFrom(PatternsGiven[k], 1)
        THEN Done /\ err = ErrInvalidFilePattern /\ calls = 0 /\ Untouched
        ELSE IF ~SomeMatch
        THEN Done /\ err = ErrNoFilesFound /\ calls = 0 /\ Untouched
        ELSE /\ calls = 1
             /\ err \notin {ErrInvalidFilePattern, ErrNoFilesFound}
             /\ processFilePatterns(fs0, PatternsGiven).warned =
                   SelectSeq(PatternsGiven,
                             LAMBDA pat : \A p \in DOMAIN fs0 : ~MatchedBy(pat, p))

\* "renby ctime *.n *.p": *.n matches nothing, the three .p files are handed
\* to RenameFiles
C23_Witness ==
    /\ PatternsProcessed
    /\ PatternsGiven = <<<<"*", ".", "n">>, <<"*", ".", "p">>>>
    /\ calls = 1
    /\ files = <<CliA, CliB, CliC>>

\* the call is in force mode and has a plan
ForceCall == Planned /\ opts.ForceOverwrite

\* the sources of the plan that are to move
Movers == {src \in DOMAIN plan : src # plan[src]}

\* the filesystem of the call with every staged source at its temp name and
\* nothing else changed
StagedFs ==
    LET moved == {Clean(src) : src \in DOMAIN temps}
        tempOf(p) == temps[CHOOSE src \in DOMAIN temps : Clean(src) = p]
    IN  [q \in (DOMAIN fs0 \ moved) \cup {temps[src] : src \in DOMAIN temps} |->
            IF q \in DOMAIN fs0 \ moved THEN fs0[q]
            ELSE fs0[CHOOSE p \in moved : tempOf(p) = q]]

\* C24: in force mode the two passes are strictly ordered: no destination
\* occupant is removed and no temp file is renamed to a final destination
\* until every src != dst source of the batch has been renamed to its temp
\* name.
C24_StagingBeforeFinal ==
    (ForceCall /\ \E src \in Movers : src \notin DOMAIN temps) =>
        /\ fs = StagedFs
        /\ nmut = Cardinality(DOMAIN temps)
        /\ pc \notin {"final", "final_rename"}

\* one source is staged, another is not, and a destination of the plan is
\* occupied by a file outside the batch
C24_Witness ==
    /\ ForceCall
    /\ Cardinality(DOMAIN temps) = 1
    /\ \E src \in Movers : src \notin DOMAIN temps
    /\ \E src \in Movers : plan[src] \in DOMAIN fs0 \ srcSet
    /\ fs = StagedFs

\* the nodes of a filesystem
NodesOf(f) == {f[p] : p \in DOMAIN f}

\* C25: every temp name chosen in force mode is in the same directory as the
\* file's destination, does not exist on disk at the moment it is chosen,
\* and differs from every other temp name chosen in the same invocation (the
\* counter never repeats), so a staging rename never overwrites an existing
\* file or another staged file.
C25_TempNamesFreshAndDistinct ==
    ForceCall =>
        /\ pc = "stage_rename" =>
              /\ Dir(temp) = Dir(plan[cur])
              /\ ~StatOk(fs, temp)
              /\ \A s \in DOMAIN temps : temps[s] # temp
        /\ \A s \in DOMAIN temps :
              /\ Dir(temps[s]) = Dir(plan[s])
              /\ temps[s] \notin DOMAIN fs0
              /\ \E k \in 0..(counter - 1) : temps[s] = TempName(plan[s], Pid, k)
        /\ \A s, t \in DOMAIN temps : temps[s] = temps[t] => s = t
        /\ pc \in {"stage", "stage_temp", "stage_rename"} =>
              NodesOf(fs) = NodesOf(fs0)

\* the first candidate for d/0.t was left behind by an earlier run: the
\* second is chosen, after another source has been staged in another
\* directory
C25_Witness ==
    /\ ForceCall
    /\ pc = "stage_rename"
    /\ DirLeftover \in DOMAIN fs
    /\ plan[cur] = DirOccupant
    /\ temp # DirLeftover
    /\ \E s \in DOMAIN temps : Dir(temps[s]) # Dir(temp)

\* the call is in direct mode and has a plan
DirectCall == Planned /\ ~opts.ForceOverwrite

Renamed == {src \in DOMAIN plan \ todo : src # plan[src]}

\* C27: when a direct-mode step fails after k >= 1 renames have succeeded,
\* those k files stay at their new names (no rollback), no further rename
\* is attempted, the remaining files stay at their original paths, and
\* exactly one error is returned.
C27_DirectFailureKeepsRenames ==
    (DirectCall /\ Done /\ err # ErrNil /\ nmut >= 1) =>
        /\ nmut = Cardinality(Renamed)
        /\ \A src \in Renamed : PlacesOf(src) = {Clean(plan[src])}
        /\ \A src \in DOMAIN plan \ Renamed : PlacesOf(src) = {Clean(src)}
        /\ \A p \in DOMAIN fs0 \ {Clean(src) : src \in srcSet} : fs[p] = fs0[p]
        /\ err \in {ErrConflictSource, ErrDestExists, ErrRename}
        /\ ~ENABLED NextFault

\* the third rename of a batch of three returns an error after two renames
C27_Witness ==
    /\ DirectCall
    /\ Done
    /\ err = ErrRename
    /\ nmut = 2
    /\ Cardinality(todo) = 1

\* C28: when a filesystem call fails in force mode the call returns at once
\* without rollback and no batch file is lost: after a staging-pass failure
\* every batch file is either at its original path or at its temp name, no
\* destination occupant has been removed and nothing has reached a final
\* destination; after a final-pass failure every batch file is either at
\* its temp name or at its final destination.
C28_ForceFailureLosesNothing ==
    (ForceCall /\ Done /\ err # ErrNil) =>
        /\ ~ENABLED NextFault
        /\ err \in {ErrMoveToTemp, ErrRemove, ErrTempToDst}
        /\ err = ErrMoveToTemp =>
              /\ fs = StagedFs
              /\ nmut = Cardinality(DOMAIN temps)
              /\ \A src \in DOMAIN plan :
                    PlacesOf(src) = {IF src \in DOMAIN temps THEN temps[src]
                                     ELSE Clean(src)}
        /\ err \in {ErrRemove, ErrTempToDst} =>
              /\ DOMAIN temps = Movers
              /\ \A src \in Movers :
                    \/ PlacesOf(src) = {temps[src]}
                    \/ PlacesOf(src) = {Clean(plan[src])}
              /\ \A src \in DOMAIN plan \ Movers : PlacesOf(src) = {Clean(src)}

\* the final pass fails with one file at its final destination and another
\* still at its temp name
C28_Witness ==
    /\ ForceCall
    /\ Done
    /\ err = ErrTempToDst
    /\ \E src \in Movers : PlacesOf(src) = {Clean(plan[src])}
    /\ \E src \in Movers : PlacesOf(src) = {temps[src]}

\* C29: direct mode is deterministic: for a given initial filesystem, input
\* list and Options with ForceOverwrite = false, the returned outcome
\* (success or which error) and the final filesystem state are the same for
\* every order in which the plan's entries are visited, chains such as
\* 1 -> 2, 2 -> 3, 3 -> 4 included.
C29_DirectDeterministic ==
    (DirectCall /\ Done /\ err # ErrConflictsAbort) =>
        \A order \in [1..Cardinality(DOMAIN plan) -> DOMAIN plan] :
            (\A i, j \in DOMAIN order : order[i] = order[j] => i = j) =>
                DirectLoop(fs0, plan, srcSet, order, 1) = [fs |-> fs, err |-> err]

\* C30: in direct mode (ForceOverwrite = false), with no other process
\* touching the filesystem, no file is ever removed or overwritten: in every
\* state reached during the call, whether it ends in success or in error,
\* every file content present before the call is still present under
\* exactly one path.
C30_DirectLosesNothing ==
    (Started /\ ~opts.ForceOverwrite) =>
        /\ \A p \in DOMAIN fs0 : Cardinality(PlacesOf(p)) = 1
        /\ Cardinality(DOMAIN fs) = Cardinality(DOMAIN fs0)

\* after one rename the loop is about to rename again, with a file outside
\* the batch on disk
C30_Witness ==
    /\ DirectCall
    /\ pc = "direct_rename"
    /\ nmut = 1
    /\ fs # fs0
    /\ \E p \in DOMAIN fs0 \ {Clean(src) : src \in srcSet} : ~fs0[p].isDir

\* C31: direct mode needs no locking against concurrent filesystem changes:
\* if another process creates a file at a planned destination after
\* planning, the second existence check makes the call fail and that file
\* is never overwritten by the rename, in every interleaving of the external
\* creation with the check and the rename.
C31_ExternalFileNeverOverwritten ==
    [][(DirectCall /\ \E q \in DOMAIN fs : fs[q] = ExternalNode) =>
          /\ \A q \in DOMAIN fs :
                fs[q] = ExternalNode => q \in DOMAIN fs' /\ fs'[q] = ExternalNode
          /\ (pc = "direct_rename" /\ StatOk(fs, plan[cur])) =>
                pc' = "done" /\ err' # ErrNil
      ]_vars

\* the paths of the files that are on disk at the call and not in the batch
Outside == DOMAIN fs0 \ {Clean(src) : src \in srcSet}

\* the planned destinations of the sources that are to move
MoverDestinations == {Clean(plan[src]) : src \in Movers}

\* C32: files that are not in the batch are never renamed, removed or
\* modified by RenameFiles, except that in force mode a non-batch file
\* located exactly at a planned destination is removed; in particular temp
\* staging never touches a non-batch file.
C32_OutsideFilesUntouched ==
    Started =>
        \A p \in Outside :
            /\ PlacesOf(p) \subseteq {p}
            /\ PlacesOf(p) = {} =>
                  /\ opts.ForceOverwrite
                  /\ p \in MoverDestinations
                  /\ pc \in {"final", "final_rename", "done"}
                  /\ DOMAIN temps = Movers

\* force mode has ended: the file outside the batch at a planned
\* destination is gone, another file outside the batch is as it was
C32_Witness ==
    /\ ForceCall
    /\ Done
    /\ err = ErrNil
    /\ \E p \in Outside : PlacesOf(p) = {} /\ ~fs0[p].isDir
    /\ \E p \in Outside : PlacesOf(p) = {p} /\ p \notin MoverDestinations

\* the plan maps no two sources to one destination, every entry of dstToSrc
\* has one source, and the detection loop appends no "multiple sources"
\* conflict
PlanInjective ==
    /\ \A s, t \in DOMAIN plan : plan[s] = plan[t] => s = t
    /\ \A d \in DOMAIN BuildDstToSrc(fileInfos, opts) :
          Len(BuildDstToSrc(fileInfos, opts)[d]) = 1
    /\ \A c \in DetectConflicts(fs0, BuildDstToSrc(fileInfos, opts), srcSet) :
          c.kind # "multiple sources"

\* C33: for every batch of pairwise distinct source paths and every valid
\* Options (any prefix, suffix, pattern width, base, Init and any
\* extensions), the planned destinations are pairwise distinct: the plan is
\* an injective map, every dstToSrc entry has exactly one source, and the
\* "multiple sources -> same destination" conflict is never produced.
C33_PlanInjective == Planned => PlanInjective

\* C33, amended: the same for every valid Options whose prefix and suffix
\* contain no path separator.
C33_PlanInjectiveWithoutSeparators ==
    (Planned /\ ~Contains(opts.Pre, Sep) /\ ~Contains(opts.Post, Sep)) =>
        PlanInjective

\* three files, two of them without extension, prefix and suffix, numbers
\* f, 10, 11 beyond the width of the pattern
C33_Witness ==
    /\ Planned
    /\ opts.Pre = <<"p">>
    /\ opts.Post = <<"q">>
    /\ opts.Pattern = <<"x">>
    /\ opts.Init = 15
    /\ Cardinality(DOMAIN plan) = 3
    /\ {<<"b">>, <<"c">>} \subseteq DOMAIN plan
    /\ PlanInjective

\* the outcomes of the direct loop on the call's initial filesystem and
\* plan, one for each order in which the map of the plan can be ranged over
DirectOutcomes ==
    {DirectLoop(fs0, plan, srcSet, order, 1) :
        order \in {o \in [1..Cardinality(DOMAIN plan) -> DOMAIN plan] :
                      \A i, j \in DOMAIN o : o[i] = o[j] => i = j}}

\* C34: force mode agrees with direct mode wherever direct mode succeeds:
\* whenever the ForceOverwrite = false call from the same initial
\* filesystem, input list and options detects no conflict and its loop
\* succeeds, the ForceOverwrite = true call succeeds too and ends in the
\* same final filesystem (same paths, same contents, no temp file left
\* behind).
C34_ForceAgreesWithDirect ==
    (ForceCall
        /\ DetectConflicts(fs0, BuildDstToSrc(fileInfos, opts), srcSet) = {}
        /\ \E d \in DirectOutcomes : d.err = ErrNil)
    ~> (Done /\ \A d \in DirectOutcomes :
                    d.err = ErrNil => (err = ErrNil /\ fs = d.fs))

\* the second call has been made and has done nothing so far: no rename,
\* staging or removal, no error, every source planned onto itself
SecondCallIdle ==
    /\ err = ErrNil
    /\ nmut = 0
    /\ fs = fs0
    /\ temps = << >>
    /\ pc \notin {"direct_rename", "stage_temp", "stage_rename", "final_rename"}
    /\ \A src \in DOMAIN plan : plan[src] = src

C36_TempLoopTerminates == (pc = "stage_temp") ~> (pc = "stage_rename")

\* C37: a file that already bears its target name is treated as a no-op
\* whatever spelling of its path is passed: when the input path is a
\* non-canonical relative path ("./1.t") whose cleaned form equals the
\* planned destination ("1.t"), RenameFiles with ForceOverwrite = false
\* reports no collision for it and leaves it in place.
C37_SpelledPathIsNoOp ==
    (Planned /\ ~opts.ForceOverwrite) =>
        \A src \in DOMAIN plan :
            (src # Clean(src) /\ Clean(src) = plan[src]) =>
                /\ \A c \in DetectConflicts(fs0, BuildDstToSrc(fileInfos, opts),
                                            srcSet) : c.dst # plan[src]
                /\ StatOk(fs, src)
                /\ fs[Clean(src)] = fs0[Clean(src)]

====
